---------------------------- MODULE Spec2Model ----------------------------
(***************************************************************************)
(* The reconciliation scripts of the repository as one state machine.      *)
(*                                                                         *)
(*   scripts/ha_to_homebox.py          device inventory sync  ("homebox")  *)
(*   scripts/audible_to_audiobookshelf.py  progress sync      ("audible")  *)
(*   update_scene.py / update_automation.py                   ("scene")    *)
(*   update_exposed_entities.py        entity exposure        ("expose")   *)
(*   update_homekit_entities.py        HomeKit Bridge filter  ("homekit")  *)
(*                                                                         *)
(* A behaviour is one invocation of one script (run = 1), optionally       *)
(* followed by a second invocation on the remote state the first one left  *)
(* (run = 2).  Text values on which the code works character by character  *)
(* (device names, manufacturers, models) are tuples of one-character       *)
(* strings; None and the empty string are both the empty tuple, since the  *)
(* code only tests them for truthiness.                                    *)
(***************************************************************************)
EXTENDS Integers, Sequences, FiniteSets, TLC

VARIABLES
    script,             \* which script this behaviour runs
    pc,                 \* position of the script
    run,                \* 1: first invocation, 2: second invocation
    dry_run,            \* --dry-run
    force_update,       \* --force-update (ha_to_homebox.py)
    exit_code,          \* <<>> while running, then <<0>> or <<1>>
    idx,                \* index of the loop the script is in
    \* ---- Home Assistant and Homebox (ha_to_homebox.py)
    ha_devices,         \* HA device registry
    ha_areas,           \* HA area registry
    devices,            \* main(): devices
    areas,              \* main(): areas
    hb_locations,       \* Homebox: locations
    hb_items,           \* Homebox: items
    existing,           \* sync_locations: existing (name -> id)
    area_to_location,   \* sync_locations: area_to_location
    existing_by_name,   \* sync_devices: existing_by_name
    physical_devices,   \* sync_devices: physical_devices
    created,            \* sync_devices: created
    updated,            \* sync_devices: updated, sync: updated
    skipped,            \* sync_devices: skipped
    \* ---- Audible and Audiobookshelf (audible_to_audiobookshelf.py)
    LIBRARY_FILE,       \* the extracted Audible library file
    abs_items,          \* Audiobookshelf: library items with the user's progress
    abs_by_asin,        \* compare: abs_by_asin
    needs_update,       \* compare: needs_update
    errors,             \* sync: errors
    \* ---- scenes (update_scene.py; update_automation.py is the same code)
    argv,               \* sys.argv[1:]: the local split files
    SERVER_PATH,        \* the server's scenes.yaml
    LOCAL_TEMP,         \* /tmp/scenes.yaml
    updated_count,      \* main: updated_count
    \* ---- scene deletion (delete_scene.py; argv holds the scene names)
    deleted_count,      \* main: deleted_count
    \* ---- entity exposure (update_exposed_entities.py)
    config_path,        \* config/exposed_entities.yaml
    core_entity_registry, \* the server's /config/.storage/core.entity_registry
    registry,           \* main: registry, as update_registry leaves it
    stats,              \* update_registry: stats
    core_config_entries, \* the server's /config/.storage/core.config_entries
    config_entries,     \* main: config_entries, as update_homekit_filter leaves it
    has_changes,        \* update_homekit_filter: has_changes
    \* ---- observation
    ops,                \* operations the current run has emitted
    writes,             \* writer calls the current run has issued
    remote_before,      \* the remote state when the current run started
    first,              \* what the first run did (set when run 2 starts)
    failures,           \* requests the environment has failed so far
    warnings            \* the error and warning lines the current run has printed

vars == <<script, pc, run, dry_run, force_update, exit_code, idx,
          ha_devices, ha_areas, devices, areas, hb_locations, hb_items,
          existing, area_to_location, existing_by_name, physical_devices,
          created, updated, skipped,
          LIBRARY_FILE, abs_items, abs_by_asin, needs_update, errors,
          argv, SERVER_PATH, LOCAL_TEMP, updated_count, deleted_count,
          config_path, core_entity_registry, registry, stats,
          core_config_entries, config_entries, has_changes,
          ops, writes, remote_before, first, failures, warnings>>

-----------------------------------------------------------------------------
(* Bounds of the model. *)
MaxDevices == 2
MaxItems == 2
\* devices and items together
MaxRecords == 3
\* requests that fail in one behaviour
MaxFailures == 1
\* Audible items and Audiobookshelf items (at most MaxRecords together)
MaxAudible == 2
MaxAbs == 2
\* local split files on the command line, scenes in the server's file
MaxFiles == 2
MaxScenes == 2
\* scene names on the command line of delete_scene.py, scenes in the file
MaxNames == 2
MaxListed == 3
\* entities in the entity registry
MaxEntities == 2
MaxEntries == 2

-----------------------------------------------------------------------------
(* Python values. *)
None == <<>>
Truthy(x) == x # <<>>
\* Python's `a or b`
Or(a, b) == IF Truthy(a) THEN a ELSE b
Range(s) == {s[k] : k \in 1..Len(s)}
SeqsUpTo(S, n) == UNION {[1..k -> S] : k \in 0..n}
EmptyDict == <<>>
\* dict.get(key), None when the key is absent
Get(dict, key) == IF key \in DOMAIN dict THEN dict[key] ELSE None
Max(S) == CHOOSE m \in S : \A n \in S : n <= m
Min(S) == CHOOSE m \in S : \A n \in S : m <= n

\* An HTTP request or a remote call ends in one of these ways.
Outcomes ==
    IF failures < MaxFailures THEN {"ok", "HTTPError", "ConnectionError"}
    ELSE {"ok"}
Failed(o) == IF o = "ok" THEN failures ELSE failures + 1

-----------------------------------------------------------------------------
(* Text as tuples of characters. *)
LowerChar(c) ==
    CASE c = "A" -> "a" [] c = "D" -> "d" [] c = "G" -> "g" [] c = "I" -> "i"
      [] c = "K" -> "k" [] c = "L" -> "l" [] c = "N" -> "n" [] c = "P" -> "p"
      [] c = "S" -> "s" [] c = "U" -> "u" [] c = "X" -> "x"
      [] OTHER -> c
\* str.lower()
Lower(s) == [k \in 1..Len(s) |-> LowerChar(s[k])]
StartsWith(s, p) == Len(p) <= Len(s) /\ SubSeq(s, 1, Len(p)) = p
EndsWith(s, p) == Len(p) <= Len(s) /\ SubSeq(s, Len(s) - Len(p) + 1, Len(s)) = p
\* `sub in s`
Contains(s, sub) ==
    \E k \in 0..(Len(s) - Len(sub)) : SubSeq(s, k + 1, k + Len(sub)) = sub
\* str.strip() of blanks
RECURSIVE LStrip(_)
LStrip(s) == IF s # <<>> /\ Head(s) = " " THEN LStrip(Tail(s)) ELSE s
RECURSIVE RStrip(_)
RStrip(s) ==
    IF s # <<>> /\ s[Len(s)] = " " THEN RStrip(SubSeq(s, 1, Len(s) - 1)) ELSE s
Strip(s) == LStrip(RStrip(s))

Lamp == <<"L", "a", "m", "p">>
Sun == <<"S", "u", "n">>
Acme == <<"A", "c", "m", "e">>
X1 == <<"X", "1">>


-----------------------------------------------------------------------------
(* scripts/ha_to_homebox.py: the deny-lists (a representative part of each). *)

\* A pattern of EXCLUDE_PATTERNS: ^ and $ anchors around a literal.
Pattern(anchor_start, lit, anchor_end) ==
    [anchor_start |-> anchor_start, lit |-> lit, anchor_end |-> anchor_end]

\* r"^Sun$", r"iPad", r"-net$", r"^\[LG\]"
EXCLUDE_PATTERNS ==
    << Pattern(TRUE, <<"S", "u", "n">>, TRUE),
       Pattern(FALSE, <<"i", "P", "a", "d">>, FALSE),
       Pattern(FALSE, <<"-", "n", "e", "t">>, TRUE),
       Pattern(TRUE, <<"[", "L", "G", "]">>, FALSE) >>

\* "Clooos", "koush"
EXCLUDE_MANUFACTURERS ==
    << <<"C", "l", "o", "o", "o", "s">>, <<"k", "o", "u", "s", "h">> >>

\* "plugin", "theme"
EXCLUDE_MODELS ==
    << <<"p", "l", "u", "g", "i", "n">>, <<"t", "h", "e", "m", "e">> >>

\* re.search(pattern, name, re.IGNORECASE)
re_search(pattern, name) ==
    LET n == Lower(name)
        l == Lower(pattern.lit)
    IN  CASE pattern.anchor_start /\ pattern.anchor_end -> n = l
          [] pattern.anchor_start -> StartsWith(n, l)
          [] pattern.anchor_end -> EndsWith(n, l)
          [] OTHER -> Contains(n, l)

\* The name is_physical_device judges.
ClassifierName(device) == Or(device.name, Or(device.name_by_user, <<>>))

\* is_physical_device without the disabled_by rule
is_physical_device_no_disabled(device) ==
    LET name == ClassifierName(device)
        manufacturer == Or(device.manufacturer, <<>>)
        model == Or(device.model, <<>>)
    IN  IF \E k \in 1..Len(EXCLUDE_PATTERNS) : re_search(EXCLUDE_PATTERNS[k], name)
        THEN FALSE
        ELSE IF manufacturer \in Range(EXCLUDE_MANUFACTURERS)
        THEN FALSE
        ELSE IF \E k \in 1..Len(EXCLUDE_MODELS) :
                    Contains(Lower(model), Lower(EXCLUDE_MODELS[k]))
        THEN FALSE
        ELSE IF ~Truthy(name)
        THEN FALSE
        ELSE TRUE

is_physical_device(device) ==
    LET name == ClassifierName(device)
        manufacturer == Or(device.manufacturer, <<>>)
        model == Or(device.model, <<>>)
    IN  IF \E k \in 1..Len(EXCLUDE_PATTERNS) : re_search(EXCLUDE_PATTERNS[k], name)
        THEN FALSE
        ELSE IF manufacturer \in Range(EXCLUDE_MANUFACTURERS)
        THEN FALSE
        ELSE IF \E k \in 1..Len(EXCLUDE_MODELS) :
                    Contains(Lower(model), Lower(EXCLUDE_MODELS[k]))
        THEN FALSE
        ELSE IF ~Truthy(name)
        THEN FALSE
        ELSE IF Truthy(device.disabled_by)
        THEN FALSE
        ELSE TRUE

-----------------------------------------------------------------------------
(* scripts/ha_to_homebox.py: the Homebox server and its client. *)

LocId(n) == <<"L", n>>
ItemId(n) == <<"I", n>>
AreaId(n) == <<"a", n>>
\* f"dry-run-{area_id}"
DryRunId(area_id) == <<"dry-run">> \o area_id

\* The index of the last (first) element of seq with the key, per key.
LastIndex(seq, name) == Max({j \in 1..Len(seq) : seq[j].name = name})
FirstIndex(seq, name) == Min({j \in 1..Len(seq) : seq[j].name = name})

NameOf(r) == r.name

\* {loc["name"]: loc["id"] for loc in client.get_locations()}
LocationsByName(locations) ==
    [n \in {NameOf(l) : l \in Range(locations)} |->
        locations[LastIndex(locations, n)].id]

\* {item["name"]: item for item in existing_items}, keeping the first item
ItemsByNameWithoutLast(items) ==
    LET all_but_last == SubSeq(items, 1, Len(items) - 1)
    IN  [n \in {NameOf(it) : it \in Range(all_but_last)} |->
            all_but_last[LastIndex(all_but_last, n)]]

ItemsByNameFirst(items) ==
    [n \in {NameOf(it) : it \in Range(items)} |->
        items[FirstIndex(items, n)]]

\* {item["name"]: item for item in existing_items}
ItemsByName(items) ==
    [n \in {NameOf(it) : it \in Range(items)} |->
        items[LastIndex(items, n)]]

\* POST /locations: the server stores the location under a fresh id
ServerCreateLocation(locations, name) ==
    Append(locations, [id |-> LocId(Len(locations) + 1), name |-> name])

\* update_data with its notes left empty
UpdateDataEmptyNotes(item_id, name, location_id, description, manufacturer, model, notes) ==
    LET update_data ==
            [id |-> item_id, name |-> name, description |-> description,
             manufacturer |-> Or(manufacturer, <<>>),
             modelNumber |-> Or(model, <<>>), notes |-> <<>>,
             quantity |-> 1]
    IN  IF Truthy(location_id)
        THEN update_data @@ [locationId |-> location_id]
        ELSE update_data

\* HomeboxClient.update_item: the body of the PUT
UpdateData(item_id, name, location_id, description, manufacturer, model, notes) ==
    LET update_data ==
            [id |-> item_id, name |-> name, description |-> description,
             manufacturer |-> Or(manufacturer, <<>>),
             modelNumber |-> Or(model, <<>>), notes |-> Or(notes, <<>>),
             quantity |-> 1]
    IN  IF Truthy(location_id)
        THEN update_data @@ [locationId |-> location_id]
        ELSE update_data

\* PUT /items/{id}: the server stores the fields the body carries
ApplyPut(item, data) ==
    [item EXCEPT !.name = data.name, !.description = data.description,
                 !.manufacturer = data.manufacturer,
                 !.modelNumber = data.modelNumber, !.notes = data.notes,
                 !.quantity = data.quantity,
                 !.location = IF "locationId" \in DOMAIN data
                              THEN data.locationId ELSE @]

ServerPutItem(items, data) ==
    [k \in 1..Len(items) |->
        IF items[k].id = data.id THEN ApplyPut(items[k], data) ELSE items[k]]

\* POST /items: the server stores name, description, quantity and location
ServerPostItem(items, name, description, location_id) ==
    Append(items,
           [id |-> ItemId(Len(items) + 1), name |-> name,
            location |-> location_id, quantity |-> 1,
            description |-> description, manufacturer |-> <<>>,
            modelNumber |-> <<>>, notes |-> <<>>])

\* The fields of the PUT body whose value differs from the stored item.
ChangedFields(item, data) ==
    {f \in DOMAIN data \ {"id", "locationId"} : item[f] # data[f]}
      \cup (IF "locationId" \in DOMAIN data /\ item.location # data.locationId
            THEN {"locationId"} ELSE {})


-----------------------------------------------------------------------------
(* Observation: what a run emitted and wrote. *)

\* The remote systems' state.
Remote ==
    [hb_locations |-> hb_locations, hb_items |-> hb_items,
     abs_items |-> abs_items, SERVER_PATH |-> SERVER_PATH,
     core_entity_registry |-> core_entity_registry,
     core_config_entries |-> core_config_entries]

\* An operation: the desired record it is for (key), the remote name or id it
\* targets, Create / Update / Skip, what became of it, and for an Update the
\* fields whose remote value differs from the desired one.
Op(key, name, kind, result, changed) ==
    [key |-> key, name |-> name, kind |-> kind, result |-> result,
     changed |-> changed]

Write(call, outcome, data) == [call |-> call, outcome |-> outcome, data |-> data]

\* The variables of each script.
HomeboxVars ==
    <<ha_devices, ha_areas, hb_locations, hb_items, devices, areas, existing,
      area_to_location, existing_by_name, physical_devices, created, skipped>>
AudibleVars == <<LIBRARY_FILE, abs_items, abs_by_asin, needs_update, errors>>
SceneVars == <<argv, SERVER_PATH, LOCAL_TEMP, updated_count, deleted_count>>
ExposeVars == <<config_path, core_entity_registry, registry, stats>>
HomekitVars == <<core_config_entries, config_entries, has_changes>>

\* sys.exit(code), an uncaught exception, or the end of main()
Finish(where, code) == pc' = where /\ exit_code' = <<code>>

-----------------------------------------------------------------------------
(* scripts/ha_to_homebox.py: main, sync_locations, sync_devices. *)

HomeboxLocals ==
    <<devices, areas, existing, area_to_location, existing_by_name,
      physical_devices, created, updated, skipped>>

\* What ha_to_homebox.py never touches.
HomeboxFrame == <<AudibleVars, SceneVars, ExposeVars, HomekitVars>>

\* hb_client.get_locations() in main: an HTTPError is caught and exits 1,
\* any other exception ends the script with a traceback.
HBConnect ==
    /\ script = "homebox" /\ pc = "main"
    /\ \E o \in Outcomes :
          /\ failures' = Failed(o)
          /\ IF o = "ok" THEN pc' = "fetch_ha" /\ UNCHANGED exit_code
             ELSE IF o = "HTTPError" THEN Finish("exit", 1)
             ELSE Finish("crash", 1)
    /\ UNCHANGED HomeboxFrame
    /\ UNCHANGED <<script, run, dry_run, force_update, idx, ha_devices, ha_areas,
                   hb_locations, hb_items, HomeboxLocals, ops, writes,
                   remote_before, first>>
    /\ warnings' = IF pc' = "exit" THEN Append(warnings, "Error connecting to Homebox")
                   ELSE warnings

\* fetch_ha_data_via_websocket: a raised exception exits 1; a result
\* without "success" leaves the list empty.
HBFetchHA ==
    /\ script = "homebox" /\ pc = "fetch_ha"
    /\ \/ /\ failures < MaxFailures
          /\ failures' = failures + 1
          /\ Finish("exit", 1)
          /\ UNCHANGED <<devices, areas>>
       \/ /\ \E dev_success \in BOOLEAN, area_success \in BOOLEAN :
                /\ devices' = IF dev_success THEN ha_devices ELSE <<>>
                /\ areas' = IF area_success THEN ha_areas ELSE <<>>
                /\ failures' = failures + (IF dev_success THEN 0 ELSE 1)
                                         + (IF area_success THEN 0 ELSE 1)
                /\ failures' <= MaxFailures
          /\ pc' = "sync_locations"
          /\ UNCHANGED exit_code
    /\ UNCHANGED HomeboxFrame
    /\ UNCHANGED <<script, run, dry_run, force_update, idx, ha_devices, ha_areas,
                   hb_locations, hb_items, existing, area_to_location,
                   existing_by_name, physical_devices, created, updated,
                   skipped, ops, writes, remote_before, first>>
    /\ warnings' = IF pc' = "exit" THEN Append(warnings, "Error fetching HA data")
                   ELSE warnings

\* sync_locations up to its loop: client.get_locations() is not guarded.
HBSyncLocations ==
    /\ script = "homebox" /\ pc = "sync_locations"
    /\ \E o \in Outcomes :
          /\ failures' = Failed(o)
          /\ IF o = "ok"
             THEN /\ existing' = LocationsByName(hb_locations)
                  /\ area_to_location' = EmptyDict
                  /\ idx' = 1
                  /\ pc' = "areas"
                  /\ UNCHANGED exit_code
             ELSE /\ Finish("crash", 1)
                  /\ UNCHANGED <<existing, area_to_location, idx>>
    /\ UNCHANGED HomeboxFrame
    /\ UNCHANGED <<script, run, dry_run, force_update, ha_devices, ha_areas,
                   devices, areas, hb_locations, hb_items, existing_by_name,
                   physical_devices, created, updated, skipped, ops, writes,
                   remote_before, first>>
    /\ UNCHANGED warnings

\* Whether the loop of sync_locations calls client.create_location.
CreatesLocationAlways(name) == name \notin DOMAIN existing

CreatesLocation(name) == name \notin DOMAIN existing /\ ~dry_run

\* One iteration of the loop of sync_locations.
HBArea ==
    /\ script = "homebox" /\ pc = "areas" /\ idx <= Len(areas)
    /\ LET area == areas[idx]
           name == area.name
           area_id == area.area_id
       IN  IF name = ""
           THEN /\ idx' = idx + 1
                /\ UNCHANGED <<pc, exit_code, area_to_location, hb_locations,
                               writes, failures>>
           ELSE IF name \in DOMAIN existing
           THEN /\ area_to_location' =
                      (area_id :> existing[name]) @@ area_to_location
                /\ idx' = idx + 1
                /\ UNCHANGED <<pc, exit_code, hb_locations, writes, failures>>
           ELSE IF ~CreatesLocation(name)
           THEN /\ area_to_location' =
                      (area_id :> DryRunId(area_id)) @@ area_to_location
                /\ idx' = idx + 1
                /\ UNCHANGED <<pc, exit_code, hb_locations, writes, failures>>
           ELSE \E o \in Outcomes :
                  /\ failures' = Failed(o)
                  /\ writes' = Append(writes,
                                      Write("create_location", o, [name |-> name]))
                  /\ IF o = "ok"
                     THEN /\ hb_locations' = ServerCreateLocation(hb_locations, name)
                          /\ area_to_location' =
                                (area_id :> LocId(Len(hb_locations) + 1))
                                    @@ area_to_location
                          /\ idx' = idx + 1
                          /\ UNCHANGED <<pc, exit_code>>
                     ELSE /\ Finish("crash", 1)
                          /\ UNCHANGED <<hb_locations, area_to_location, idx>>
    /\ UNCHANGED HomeboxFrame
    /\ UNCHANGED <<script, run, dry_run, force_update, ha_devices, ha_areas,
                   devices, areas, hb_items, existing, existing_by_name,
                   physical_devices, created, updated, skipped, ops,
                   remote_before, first>>
    /\ UNCHANGED warnings

\* sync_devices up to its loop: client.get_items() is not guarded.
HBSyncDevices ==
    /\ script = "homebox" /\ pc = "areas" /\ idx > Len(areas)
    /\ \E o \in Outcomes :
          /\ failures' = Failed(o)
          /\ IF o = "ok"
             THEN /\ existing_by_name' = ItemsByName(hb_items)
                  /\ physical_devices' = SelectSeq(devices, is_physical_device)
                  /\ created' = 0 /\ updated' = 0 /\ skipped' = 0
                  /\ idx' = 1
                  /\ pc' = "devices"
                  /\ UNCHANGED exit_code
             ELSE /\ Finish("crash", 1)
                  /\ UNCHANGED <<existing_by_name, physical_devices, created,
                                 updated, skipped, idx>>
    /\ UNCHANGED HomeboxFrame
    /\ UNCHANGED <<script, run, dry_run, force_update, ha_devices, ha_areas,
                   devices, areas, hb_locations, hb_items, existing,
                   area_to_location, ops, writes, remote_before, first>>
    /\ UNCHANGED warnings

\* The name sync_devices files the device under.
SyncName(device) == Or(device.name_by_user, Or(device.name, <<>>))

\* notes: "\n".join(notes_parts), a tuple of the parts
Notes(device) ==
    LET device_id == Or(device.id, <<>>)
        id_part == IF Truthy(device_id)
                   THEN << <<"HA Device ID: ", device_id>> >> ELSE <<>>
        label_part == IF Truthy(device.labels)
                      THEN << <<"HA Labels: ", device.labels>> >> ELSE <<>>
    IN  id_part \o label_part

\* description = f"{manufacturer} {model}".strip()
Description(device) ==
    Strip(Or(device.manufacturer, <<>>) \o <<" ">> \o Or(device.model, <<>>))

LocationIdOf(device) ==
    IF Truthy(device.area_id) THEN Get(area_to_location, device.area_id) ELSE None

\* needs_update that also fires when there is no new location
NeedsUpdateAnyLocation(force, location_id, existing_loc_id, existing_qty) ==
    \/ force
    \/ existing_loc_id # location_id
    \/ existing_qty = 0

\* needs_update without the force flag
NeedsUpdateIgnoresForce(force, location_id, existing_loc_id, existing_qty) ==
    \/ Truthy(location_id) /\ existing_loc_id # location_id
    \/ existing_qty = 0

\* needs_update without the test of the quantity
NeedsUpdateNoQuantity(force, location_id, existing_loc_id, existing_qty) ==
    \/ force
    \/ Truthy(location_id) /\ existing_loc_id # location_id

\* needs_update of sync_devices
NeedsUpdate(force, location_id, existing_loc_id, existing_qty) ==
    \/ force
    \/ Truthy(location_id) /\ existing_loc_id # location_id
    \/ existing_qty = 0

\* The body of the PUT that client.update_item sends for the device.
DeviceUpdateData(device, item_id) ==
    UpdateData(item_id, SyncName(device), LocationIdOf(device),
               Description(device), Or(device.manufacturer, <<>>),
               Or(device.model, <<>>), Notes(device))


\* One iteration of the loop of sync_devices.  update_item and create_item
\* are guarded by `except requests.HTTPError` only; create_item is a POST
\* followed by a PUT.
HBDevice ==
    /\ script = "homebox" /\ pc = "devices" /\ idx <= Len(physical_devices)
    /\ LET device == physical_devices[idx]
           name == SyncName(device)
           location_id == LocationIdOf(device)
       IN  IF ~Truthy(name)
           THEN /\ idx' = idx + 1
                /\ UNCHANGED <<pc, exit_code, hb_items, created, updated,
                               skipped, ops, writes, failures>>
           ELSE IF name \in DOMAIN existing_by_name
           THEN LET existing_item == existing_by_name[name]
                    existing_loc_id == existing_item.location
                    existing_qty == existing_item.quantity
                    data == DeviceUpdateData(device, existing_item.id)
                    changed == ChangedFields(existing_item, data)
                IN  IF NeedsUpdate(force_update, location_id, existing_loc_id,
                                   existing_qty)
                    THEN IF dry_run
                         THEN /\ ops' = Append(ops, Op(device.id, name, "Update",
                                                       "dry", changed))
                              /\ idx' = idx + 1
                              /\ UNCHANGED <<pc, exit_code, hb_items, created,
                                             updated, skipped, writes, failures>>
                         ELSE \E o \in Outcomes :
                              /\ failures' = Failed(o)
                              /\ writes' = Append(writes,
                                                  Write("update_item", o, data))
                              /\ ops' = Append(ops,
                                     Op(device.id, name, "Update",
                                        IF o = "ok" THEN "applied" ELSE "failed",
                                        changed))
                              /\ hb_items' = IF o = "ok"
                                             THEN ServerPutItem(hb_items, data)
                                             ELSE hb_items
                              /\ updated' = IF o = "ok" THEN updated + 1
                                            ELSE updated
                              /\ IF o = "ConnectionError"
                                 THEN Finish("crash", 1) /\ UNCHANGED idx
                                 ELSE idx' = idx + 1 /\ UNCHANGED <<pc, exit_code>>
                              /\ UNCHANGED <<created, skipped>>
                    ELSE /\ ops' = Append(ops, Op(device.id, name, "Skip",
                                                  "skipped", {}))
                         /\ skipped' = skipped + 1
                         /\ idx' = idx + 1
                         /\ UNCHANGED <<pc, exit_code, hb_items, created,
                                        updated, writes, failures>>
           ELSE IF dry_run
           THEN /\ ops' = Append(ops, Op(device.id, name, "Create", "dry", {}))
                /\ idx' = idx + 1
                /\ UNCHANGED <<pc, exit_code, hb_items, created, updated,
                               skipped, writes, failures>>
           ELSE LET description == Description(device)
                    posted == ServerPostItem(hb_items, name, description,
                                             location_id)
                    data == DeviceUpdateData(device, ItemId(Len(hb_items) + 1))
                    item_data == [name |-> name, description |-> description,
                                  quantity |-> 1]
                    post == Write("create_item_post", "ok",
                                  IF Truthy(location_id)
                                  THEN item_data @@ [locationId |-> location_id]
                                  ELSE item_data)
                IN  \E o \in Outcomes, put \in BOOLEAN :
                    \* put: the POST was answered and the PUT is what ends as o
                    LET result == IF o = "ok" THEN "applied" ELSE "failed"
                    IN  /\ o = "ok" => put
                        /\ failures' = Failed(o)
                        /\ writes' =
                              IF put
                              THEN writes \o <<post, Write("create_item_put", o, data)>>
                              ELSE Append(writes, [post EXCEPT !.outcome = o])
                        /\ ops' = Append(ops, Op(device.id, name, "Create",
                                                 result, {}))
                        /\ hb_items' = IF ~put THEN hb_items
                                       ELSE IF o # "ok" THEN posted
                                       ELSE ServerPutItem(posted, data)
                        /\ created' = IF o = "ok" THEN created + 1 ELSE created
                        /\ IF o = "ConnectionError"
                           THEN Finish("crash", 1) /\ UNCHANGED idx
                           ELSE idx' = idx + 1 /\ UNCHANGED <<pc, exit_code>>
                        /\ UNCHANGED <<updated, skipped>>
    /\ UNCHANGED HomeboxFrame
    /\ UNCHANGED <<script, run, dry_run, force_update, ha_devices, ha_areas,
                   devices, areas, hb_locations, existing, area_to_location,
                   existing_by_name, physical_devices, remote_before, first>>
    /\ warnings' =
          IF Len(ops') > Len(ops) /\ ops'[Len(ops')].result = "failed" /\ pc' = pc
          THEN Append(warnings, IF ops'[Len(ops')].kind = "Update"
                                THEN "[ERROR] Failed to update"
                                ELSE "[ERROR] Failed to create")
          ELSE warnings

\* The summary of sync_devices and the end of main: exit status 0.
HBDone ==
    /\ script = "homebox" /\ pc = "devices" /\ idx > Len(physical_devices)
    /\ Finish("done", 0)
    /\ UNCHANGED HomeboxFrame
    /\ UNCHANGED <<script, run, dry_run, force_update, idx, ha_devices, ha_areas,
                   hb_locations, hb_items, HomeboxLocals, ops, writes,
                   remote_before, first, failures>>
    /\ UNCHANGED warnings

HomeboxNext ==
    \/ HBConnect
    \/ HBFetchHA
    \/ HBSyncLocations
    \/ HBArea
    \/ HBSyncDevices
    \/ HBDevice
    \/ HBDone

-----------------------------------------------------------------------------
(* The inputs of ha_to_homebox.py. *)

Device(name, name_by_user, area_id) ==
    [name |-> name, name_by_user |-> name_by_user, manufacturer |-> Acme,
     model |-> X1, disabled_by |-> None, area_id |-> area_id, id |-> None,
     labels |-> <<>>]

DeviceSpace ==
    {Device(Lamp, <<>>, a) : a \in {None, AreaId(1), AreaId(2)}}
      \cup {Device(Lamp, Sun, None), Device(Sun, <<>>, None)}

\* The registry gives every device an id of its own.
WithIds(seq, tag) == [k \in 1..Len(seq) |-> [seq[k] EXCEPT !.id = <<tag, k>>]]
DeviceId(n) == <<"d", n>>

DeviceLists == {WithIds(ds, "d") : ds \in SeqsUpTo(DeviceSpace, MaxDevices)}

\* Home Assistant keeps area names unique; an area may have no name.
AreaLists ==
    { << [area_id |-> AreaId(1), name |-> "Den"],
         [area_id |-> AreaId(2), name |-> n] >> : n \in {"Loft", ""} }

LocationLists == { <<>>, << [id |-> LocId(1), name |-> "Den"] >> }

Item(location, quantity) ==
    [id |-> None, name |-> Lamp, location |-> location, quantity |-> quantity,
     description |-> <<>>, manufacturer |-> <<>>, modelNumber |-> <<>>,
     notes |-> <<>>]

\* An item lies in no location or in one that exists.
ItemLists(locations) ==
    {WithIds(its, "I") :
        its \in SeqsUpTo({Item(l, q) : l \in {None} \cup {loc.id : loc \in Range(locations)},
                                       q \in {0, 1}}, MaxItems)}

HomeboxIdle ==
    /\ ha_devices = <<>> /\ ha_areas = <<>>
    /\ hb_locations = <<>> /\ hb_items = <<>>

HomeboxLocalsInit ==
    /\ devices = <<>> /\ areas = <<>>
    /\ existing = EmptyDict /\ area_to_location = EmptyDict
    /\ existing_by_name = EmptyDict /\ physical_devices = <<>>
    /\ created = 0 /\ updated = 0 /\ skipped = 0

ObservationInit ==
    /\ ops = <<>> /\ writes = <<>> /\ first = <<>> /\ failures = 0
    /\ warnings = <<>>
    /\ remote_before = Remote

-----------------------------------------------------------------------------
(* audible_to_audiobookshelf.py sync.  percent_complete is a whole number  *)
(* of percent; a progress fraction is kept in thousandths, so that         *)
(* pct / 100.0 is pct * 10 and 1.0 is 1000.                                *)

\* pct / 100.0
ProgressOf(pct) == pct * 10
\* The progress 1.0 of a finished book.
FullProgress == ProgressOf(100)
\* duration * progress
CurrentTimeOf(duration, pct) == (duration * ProgressOf(pct)) \div FullProgress

\* abs_by_asin: a later item replaces an earlier one with the same asin;
\* items without an asin are left out.
AbsByAsin(items) ==
    LET keyed == {k \in 1..Len(items) : items[k].asin # ""}
    IN  [a \in {items[k].asin : k \in keyed} |->
            items[Max({k \in keyed : items[k].asin = a})]]

Update(aud_item, abs_item, action) ==
    [title |-> aud_item.title, asin |-> aud_item.asin, abs_id |-> abs_item.id,
     action |-> action, aud_pct |-> aud_item.percent_complete]

\* compare with `if` in place of `elif`: both tests are made
CompareItemBoth(aud_item, by_asin) ==
    IF aud_item.asin \in DOMAIN by_asin
    THEN LET abs_item == by_asin[aud_item.asin]
         IN  (IF aud_item.is_finished /\ ~abs_item.is_finished
              THEN <<Update(aud_item, abs_item, "mark_finished")>> ELSE <<>>)
             \o (IF /\ aud_item.percent_complete > 0
                     /\ ~abs_item.is_finished
                     /\ abs_item.progress = 0
                     /\ abs_item.current_time = 0
                  THEN <<Update(aud_item, abs_item, "set_progress")>> ELSE <<>>)
    ELSE <<>>

\* compare without the test of abs_finished in the second branch
CompareItemOverFinished(aud_item, by_asin) ==
    IF aud_item.asin \in DOMAIN by_asin
    THEN LET abs_item == by_asin[aud_item.asin]
         IN  IF aud_item.is_finished /\ ~abs_item.is_finished
             THEN <<Update(aud_item, abs_item, "mark_finished")>>
             ELSE IF /\ aud_item.percent_complete > 0
                     /\ abs_item.progress = 0
                     /\ abs_item.current_time = 0
                  THEN <<Update(aud_item, abs_item, "set_progress")>>
                  ELSE <<>>
    ELSE <<>>

\* The entries the loop of compare appends for one Audible item.
CompareItem(aud_item, by_asin) ==
    IF aud_item.asin \in DOMAIN by_asin
    THEN LET abs_item == by_asin[aud_item.asin]
         IN  IF aud_item.is_finished /\ ~abs_item.is_finished
             THEN <<Update(aud_item, abs_item, "mark_finished")>>
             ELSE IF /\ aud_item.percent_complete > 0
                     /\ ~abs_item.is_finished
                     /\ abs_item.progress = 0
                     /\ abs_item.current_time = 0
                  THEN <<Update(aud_item, abs_item, "set_progress")>>
                  ELSE <<>>
    ELSE <<>>

RECURSIVE Compare(_, _)
Compare(audible_items, by_asin) ==
    IF audible_items = <<>> THEN <<>>
    ELSE CompareItem(Head(audible_items), by_asin)
            \o Compare(Tail(audible_items), by_asin)

IsMarkFinished(u) == u.action = "mark_finished"
IsSetProgress(u) == u.action = "set_progress"

\* The updates in the order compare has planned them
SyncOrderAsPlanned(updates) == updates

\* sync patches every to_finish entry, then every to_progress entry.
SyncOrder(updates) ==
    SelectSeq(updates, IsMarkFinished) \o SelectSeq(updates, IsSetProgress)

\* The body of the PATCH of a to_finish entry.
FinishedBody == [isFinished |-> TRUE]

\* The body of the PATCH with the threshold at 99
ProgressBodyAbove99(pct, duration) ==
    IF pct > 99
    THEN [progress |-> FullProgress, currentTime |-> duration, isFinished |-> TRUE]
    ELSE [progress |-> ProgressOf(pct), currentTime |-> CurrentTimeOf(duration, pct),
          isFinished |-> FALSE]

\* The body of the PATCH of a to_progress entry.
ProgressBody(pct, duration) ==
    IF pct > 95
    THEN [progress |-> FullProgress, currentTime |-> duration, isFinished |-> TRUE]
    ELSE [progress |-> ProgressOf(pct), currentTime |-> CurrentTimeOf(duration, pct),
          isFinished |-> FALSE]

\* PATCH /api/me/progress/<id>: the fields of the body replace the stored ones.
ServerPatchProgress(items, abs_id, body) ==
    [k \in 1..Len(items) |->
        IF items[k].id # abs_id THEN items[k]
        ELSE [items[k] EXCEPT
                !.is_finished = IF "isFinished" \in DOMAIN body
                                THEN body.isFinished ELSE @,
                !.progress = IF "progress" \in DOMAIN body THEN body.progress ELSE @,
                !.current_time = IF "currentTime" \in DOMAIN body
                                 THEN body.currentTime ELSE @]]

\* GET /api/items/<id>: media.duration of the item.
DurationOf(items, abs_id) ==
    LET hits == {k \in 1..Len(items) : items[k].id = abs_id}
    IN  IF hits = {} THEN 0 ELSE items[Min(hits)].duration


\* The fields of the remote item that the patches of an update will change.
ChangedByUpdate(u, abs_item) ==
    LET body == IF u.action = "mark_finished" THEN FinishedBody
                ELSE ProgressBody(u.aud_pct, abs_item.duration)
    IN  {f \in DOMAIN body :
            body[f] # (CASE f = "isFinished" -> abs_item.is_finished
                         [] f = "progress" -> abs_item.progress
                         [] OTHER -> abs_item.current_time)}

\* What compare decides for one Audible item, as operations.
ItemOps(aud_item, by_asin, result) ==
    LET us == CompareItem(aud_item, by_asin)
    IN  IF us # <<>>
        THEN [k \in 1..Len(us) |->
                Op(aud_item.title, us[k].abs_id, "Update", result,
                   ChangedByUpdate(us[k], by_asin[aud_item.asin]))]
        ELSE IF aud_item.asin \in DOMAIN by_asin
        THEN <<Op(aud_item.title, by_asin[aud_item.asin].id, "Skip", "skipped", {})>>
        ELSE <<Op(aud_item.title, None, "Skip", "unmatched", {})>>

RECURSIVE CompareOps(_, _, _)
CompareOps(audible_items, by_asin, result) ==
    IF audible_items = <<>> THEN <<>>
    ELSE ItemOps(Head(audible_items), by_asin, result)
            \o CompareOps(Tail(audible_items), by_asin, result)

\* The operation of an update gets its result when its patch is sent.
Resolve(log, u, result) ==
    [k \in 1..Len(log) |->
        IF log[k].key = u.title /\ log[k].kind = "Update"
        THEN [log[k] EXCEPT !.result = result] ELSE log[k]]

\* What audible_to_audiobookshelf.py never touches.
AudibleFrame == <<HomeboxVars, SceneVars, ExposeVars, HomekitVars>>

\* sync up to its loops: compare() loads the library file (exit 1 when it is
\* missing), fetches Audiobookshelf (not guarded) and plans the updates.
AudCompare ==
    /\ script = "audible" /\ pc = "main"
    /\ IF ~LIBRARY_FILE.exists
       THEN /\ Finish("exit", 1)
            /\ UNCHANGED <<abs_by_asin, needs_update, ops, failures, idx>>
       ELSE \E o \in Outcomes :
            /\ failures' = Failed(o)
            /\ IF o # "ok"
               THEN /\ Finish("crash", 1)
                    /\ UNCHANGED <<abs_by_asin, needs_update, ops, idx>>
               ELSE /\ abs_by_asin' = AbsByAsin(abs_items)
                    /\ needs_update' = Compare(LIBRARY_FILE.items, abs_by_asin')
                    /\ ops' = CompareOps(LIBRARY_FILE.items, abs_by_asin',
                                         IF dry_run THEN "dry" ELSE "pending")
                    /\ idx' = 1
                    /\ IF needs_update' = <<>> \/ dry_run
                       THEN Finish("done", 0)
                       ELSE pc' = "patch" /\ UNCHANGED exit_code
    /\ updated' = 0 /\ errors' = 0
    /\ UNCHANGED AudibleFrame
    /\ UNCHANGED <<script, run, dry_run, force_update, LIBRARY_FILE, abs_items,
                   writes, remote_before, first>>
    /\ warnings' =
          IF pc' = "exit" THEN Append(warnings, "No library file found")
          ELSE IF \E k \in 1..Len(ops') : ops'[k].result = "unmatched"
          THEN Append(warnings, "unmatched (no ASIN match in ABS)")
          ELSE warnings

\* One iteration of `for item in to_finish`.
AudFinish ==
    /\ script = "audible" /\ pc = "patch" /\ idx <= Len(SyncOrder(needs_update))
    /\ LET item == SyncOrder(needs_update)[idx]
       IN  /\ item.action = "mark_finished"
           /\ \E o \in Outcomes :
              /\ failures' = Failed(o)
              /\ writes' = Append(writes, Write("patch_progress", o,
                                   [id |-> item.abs_id, body |-> FinishedBody,
                                    title |-> item.title]))
              /\ ops' = Resolve(ops, item, IF o = "ok" THEN "applied" ELSE "failed")
              /\ abs_items' = IF o = "ok"
                              THEN ServerPatchProgress(abs_items, item.abs_id,
                                                       FinishedBody)
                              ELSE abs_items
              /\ updated' = IF o = "ok" THEN updated + 1 ELSE updated
              /\ errors' = IF o = "ok" THEN errors ELSE errors + 1
    /\ idx' = idx + 1
    /\ UNCHANGED AudibleFrame
    /\ UNCHANGED <<script, pc, run, dry_run, force_update, exit_code,
                   LIBRARY_FILE, abs_by_asin, needs_update, remote_before, first>>
    /\ warnings' = IF errors' > errors THEN Append(warnings, "x title: error")
                   ELSE warnings

\* One iteration of `for item in to_progress`: the GET of the item answers
\* with its duration, answers not ok (duration 0) or raises; then the PATCH.
AudProgress ==
    /\ script = "audible" /\ pc = "patch" /\ idx <= Len(SyncOrder(needs_update))
    /\ LET item == SyncOrder(needs_update)[idx]
       IN  /\ item.action = "set_progress"
           /\ \E get \in {"ok", "not ok", "raise"}, o \in Outcomes :
              LET duration == IF get = "ok" THEN DurationOf(abs_items, item.abs_id)
                              ELSE 0
                  body == ProgressBody(item.aud_pct, duration)
                  done == get # "raise" /\ o = "ok"
              IN  /\ get = "raise" => o # "ok"
                  /\ failures' = Failed(o)
                  /\ writes' = IF get = "raise" THEN writes
                               ELSE Append(writes, Write("patch_progress", o,
                                             [id |-> item.abs_id, body |-> body,
                                              title |-> item.title]))
                  /\ ops' = Resolve(ops, item, IF done THEN "applied" ELSE "failed")
                  /\ abs_items' = IF done
                                  THEN ServerPatchProgress(abs_items, item.abs_id, body)
                                  ELSE abs_items
                  /\ updated' = IF done THEN updated + 1 ELSE updated
                  /\ errors' = IF done THEN errors ELSE errors + 1
    /\ idx' = idx + 1
    /\ UNCHANGED AudibleFrame
    /\ UNCHANGED <<script, pc, run, dry_run, force_update, exit_code,
                   LIBRARY_FILE, abs_by_asin, needs_update, remote_before, first>>
    /\ warnings' = IF errors' > errors THEN Append(warnings, "x title: error")
                   ELSE warnings

\* "Sync complete": sync returns and main ends with exit status 0.
AudDone ==
    /\ script = "audible" /\ pc = "patch" /\ idx > Len(SyncOrder(needs_update))
    /\ Finish("done", 0)
    /\ UNCHANGED AudibleFrame
    /\ UNCHANGED <<script, run, dry_run, force_update, idx, LIBRARY_FILE,
                   abs_items, abs_by_asin, needs_update, updated, errors, ops,
                   writes, remote_before, first, failures>>
    /\ UNCHANGED warnings

AudibleNext ==
    \/ AudCompare
    \/ AudFinish
    \/ AudProgress
    \/ AudDone

-----------------------------------------------------------------------------
(* The inputs of audible_to_audiobookshelf.py. *)

Book(asin, is_finished, percent_complete) ==
    [asin |-> asin, title |-> None, is_finished |-> is_finished,
     percent_complete |-> percent_complete]

AudibleSpace ==
    {Book("B1", f, p) : f \in BOOLEAN, p \in {0, 95, 96}}
        \cup {Book("", TRUE, 96)}

Title(n) == <<"t", n>>
WithTitles(seq) == [k \in 1..Len(seq) |-> [seq[k] EXCEPT !.title = Title(k)]]

LibraryFiles ==
    {[exists |-> FALSE, items |-> <<>>]}
        \cup {[exists |-> TRUE, items |-> WithTitles(bs)] :
                bs \in SeqsUpTo(AudibleSpace, MaxAudible)}

AbsItem(asin, is_finished, progress, current_time) ==
    [id |-> None, asin |-> asin, is_finished |-> is_finished,
     progress |-> progress, current_time |-> current_time, duration |-> 200]

AbsSpace ==
    {AbsItem("B1", FALSE, p, t) : p \in {0, ProgressOf(10)}, t \in {0, 20}}
        \cup {AbsItem("B1", TRUE, 0, 0), AbsItem("", FALSE, 0, 0)}

AbsLists == {WithIds(its, "A") : its \in SeqsUpTo(AbsSpace, MaxAbs)}

AudibleIdle == LIBRARY_FILE = <<>> /\ abs_items = <<>>

AudibleLocalsInit == abs_by_asin = EmptyDict /\ needs_update = <<>> /\ errors = 0

-----------------------------------------------------------------------------
(* update_scene.py (update_automation.py is the same code over             *)
(* automations.yaml).  A YAML mapping is a function from keys to values, a *)
(* YAML file that holds a list is [is_list |-> TRUE, data |-> the list].   *)

\* The keys on which two mappings differ.
DictDiff(a, b) == {f \in DOMAIN a \cup DOMAIN b : Get(a, f) # Get(b, f)}

\* The loop without its break: the index is that of the last match
FindSceneLastMatch(server_scenes, scene_id) ==
    LET hits == {i \in 1..Len(server_scenes) :
                    Get(server_scenes[i], "id") = scene_id}
    IN  IF hits = {} THEN 0 ELSE Max(hits)

\* The loop without the `if not found` return: the index is the last one
FindSceneOrLast(server_scenes, scene_id) ==
    LET hits == {i \in 1..Len(server_scenes) :
                    Get(server_scenes[i], "id") = scene_id}
    IN  IF hits = {} THEN Len(server_scenes) ELSE Min(hits)

\* The loop of update_scene_from_file: the index it replaces, 0 when no
\* scene of the server has the id.  It stops at the first match.
FindScene(server_scenes, scene_id) ==
    LET hits == {i \in 1..Len(server_scenes) :
                    Get(server_scenes[i], "id") = scene_id}
    IN  IF hits = {} THEN 0 ELSE Min(hits)

\* Whether update_scene_from_file(local_file) returns True.
SceneUpdates(local_file, temp) ==
    /\ local_file.exists
    /\ Truthy(local_file.data) /\ "id" \in DOMAIN local_file.data
    /\ temp.is_list
    /\ FindScene(temp.data, local_file.data.id) # 0

\* yaml.dump of the local scene in place of the list
SceneReplacedAlone(local_file, temp) == [temp EXCEPT !.data = <<local_file.data>>]

\* The file that update_scene_from_file writes back.
SceneReplaced(local_file, temp) ==
    [temp EXCEPT !.data[FindScene(temp.data, local_file.data.id)] = local_file.data]

FileKey(n) == <<"f", n>>

\* What update_scene.py never touches.
SceneFrame ==
    <<HomeboxVars, AudibleVars, ExposeVars, HomekitVars, updated, deleted_count>>

ScpOutcomes == IF failures < MaxFailures THEN {"ok", "failed"} ELSE {"ok"}

\* main up to its loop: the usage check and download_scenes().
SceneDownload ==
    /\ script = "scene" /\ pc = "main"
    /\ IF argv = <<>>
       THEN Finish("exit", 1) /\ UNCHANGED <<LOCAL_TEMP, idx, failures>>
       ELSE \E o \in ScpOutcomes :
            /\ failures' = Failed(o)
            /\ IF o = "ok"
               THEN /\ LOCAL_TEMP' = SERVER_PATH
                    /\ pc' = "files" /\ idx' = 1
                    /\ UNCHANGED exit_code
               ELSE Finish("exit", 1) /\ UNCHANGED <<LOCAL_TEMP, idx>>
    /\ updated_count' = 0
    /\ UNCHANGED SceneFrame
    /\ UNCHANGED <<script, run, dry_run, force_update, argv, SERVER_PATH, ops,
                   writes, remote_before, first>>
    /\ warnings' = IF argv = <<>> THEN Append(warnings, "Usage")
                   ELSE IF pc' = "exit" THEN Append(warnings, "Failed to download")
                   ELSE warnings

\* One iteration of `for file_path in sys.argv[1:]`.
SceneFile ==
    /\ script = "scene" /\ pc = "files" /\ idx <= Len(argv)
    /\ LET local_file == argv[idx]
           valid == /\ local_file.exists /\ Truthy(local_file.data)
                    /\ "id" \in DOMAIN local_file.data
       IN  IF SceneUpdates(local_file, LOCAL_TEMP)
           THEN LET i == FindScene(LOCAL_TEMP.data, local_file.data.id)
                IN  /\ LOCAL_TEMP' = SceneReplaced(local_file, LOCAL_TEMP)
                    /\ updated_count' = updated_count + 1
                    /\ ops' = Append(ops,
                          Op(FileKey(idx), <<i>>, "Update", "pending",
                             DictDiff(local_file.data, LOCAL_TEMP.data[i])))
           ELSE /\ UNCHANGED <<LOCAL_TEMP, updated_count>>
                /\ ops' = Append(ops,
                      Op(FileKey(idx), None, "Skip",
                         IF valid THEN "unmatched" ELSE "invalid", {}))
    /\ idx' = idx + 1
    /\ UNCHANGED SceneFrame
    /\ UNCHANGED <<script, pc, run, dry_run, force_update, exit_code, argv,
                   SERVER_PATH, writes, remote_before, first, failures>>
    /\ warnings' =
          LET local_file == argv[idx]
          IN  IF ~local_file.exists
              THEN Append(warnings, "Local file not found")
              ELSE IF ~Truthy(local_file.data) \/ "id" \notin DOMAIN local_file.data
              THEN Append(warnings, "Invalid scene file (missing id)")
              ELSE IF ~LOCAL_TEMP.is_list
              THEN Append(warnings, "Server scenes.yaml is not a list")
              ELSE IF FindScene(LOCAL_TEMP.data, local_file.data.id) = 0
              THEN Append(warnings, "Scene not found on server")
              ELSE warnings

\* The end of main with upload_scenes() ahead of the test of updated_count
SceneUploadAlways ==
    /\ script = "scene" /\ pc = "files" /\ idx > Len(argv)
    /\ \E o \in ScpOutcomes :
            /\ failures' = Failed(o)
            /\ writes' = Append(writes, Write("upload_scenes", o, LOCAL_TEMP))
            /\ SERVER_PATH' = IF o = "ok" THEN LOCAL_TEMP ELSE SERVER_PATH
            /\ ops' = [k \in 1..Len(ops) |->
                         IF ops[k].kind = "Update"
                         THEN [ops[k] EXCEPT !.result =
                                  IF o = "ok" THEN "applied" ELSE "failed"]
                         ELSE ops[k]]
            /\ IF o = "ok" /\ updated_count > 0
               THEN Finish("done", 0) ELSE Finish("exit", 1)
    /\ UNCHANGED SceneFrame
    /\ UNCHANGED <<script, run, dry_run, force_update, idx, argv, LOCAL_TEMP,
                   updated_count, remote_before, first>>
    /\ warnings' = IF updated_count = 0
                   THEN Append(warnings, "No scenes were updated")
                   ELSE IF pc' = "exit" THEN Append(warnings, "Failed to upload")
                   ELSE warnings

\* The end of main: upload_scenes() when a file was updated, else exit 1.
SceneUpload ==
    /\ script = "scene" /\ pc = "files" /\ idx > Len(argv)
    /\ IF updated_count > 0
       THEN \E o \in ScpOutcomes :
            /\ failures' = Failed(o)
            /\ writes' = Append(writes, Write("upload_scenes", o, LOCAL_TEMP))
            /\ SERVER_PATH' = IF o = "ok" THEN LOCAL_TEMP ELSE SERVER_PATH
            /\ ops' = [k \in 1..Len(ops) |->
                         IF ops[k].kind = "Update"
                         THEN [ops[k] EXCEPT !.result =
                                  IF o = "ok" THEN "applied" ELSE "failed"]
                         ELSE ops[k]]
            /\ IF o = "ok" THEN Finish("done", 0) ELSE Finish("exit", 1)
       ELSE /\ Finish("exit", 1)
            /\ UNCHANGED <<SERVER_PATH, ops, writes, failures>>
    /\ UNCHANGED SceneFrame
    /\ UNCHANGED <<script, run, dry_run, force_update, idx, argv, LOCAL_TEMP,
                   updated_count, remote_before, first>>
    /\ warnings' = IF updated_count = 0
                   THEN Append(warnings, "No scenes were updated")
                   ELSE IF pc' = "exit" THEN Append(warnings, "Failed to upload")
                   ELSE warnings

SceneNext ==
    \/ SceneDownload
    \/ SceneFile
    \/ SceneUpload

(* The inputs of update_scene.py. *)

Scene(id, name) == [id |-> id, name |-> name]

LocalFiles ==
    {[exists |-> FALSE, data |-> None], [exists |-> TRUE, data |-> None],
     [exists |-> TRUE, data |-> [name |-> "new"]]}
        \cup {[exists |-> TRUE, data |-> Scene(i, n)] :
                i \in {"s1", "s2"}, n \in {"old", "new"}}

ServerScenes == {Scene("s1", "old"), Scene("s1", "other"), Scene("s3", "old")}

ServerFiles ==
    {[is_list |-> FALSE, data |-> <<>>]}
        \cup {[is_list |-> TRUE, data |-> l] : l \in SeqsUpTo(ServerScenes, MaxScenes)}

NoFile == [is_list |-> FALSE, data |-> <<>>]

SceneIdle ==
    /\ argv = <<>> /\ SERVER_PATH = NoFile /\ LOCAL_TEMP = NoFile
    /\ updated_count = 0 /\ deleted_count = 0

-----------------------------------------------------------------------------
(* delete_scene.py.  SERVER_PATH and LOCAL_TEMP are those of update_scene.py, *)
(* the command line holds scene names.                                       *)

\* scene.get("name", "")
SceneName(scene) == IF "name" \in DOMAIN scene THEN scene.name ELSE ""

\* set(names_to_delete)
NamesSet(names_to_delete) == Range(names_to_delete)

\* remaining_scenes behind the loop, with a test of the first name only
remaining_scenes_first_name(scenes, names_to_delete) ==
    LET Kept(scene) == names_to_delete = <<>>
                          \/ SceneName(scene) # names_to_delete[1]
    IN  SelectSeq(scenes, Kept)

\* remaining_scenes behind the loop of delete_scenes_by_name.
remaining_scenes(scenes, names_to_delete) ==
    LET Kept(scene) == SceneName(scene) \notin NamesSet(names_to_delete)
    IN  SelectSeq(scenes, Kept)

\* set(deleted_names)
deleted_names(scenes, names_to_delete) ==
    {SceneName(scenes[k]) : k \in 1..Len(scenes)} \cap NamesSet(names_to_delete)

\* not_found = names_set - set(deleted_names)
not_found(scenes, names_to_delete) ==
    NamesSet(names_to_delete) \ deleted_names(scenes, names_to_delete)

\* What delete_scene.py never touches.
DeleteFrame ==
    <<HomeboxVars, AudibleVars, ExposeVars, HomekitVars, updated, updated_count>>

\* main up to delete_scenes_by_name: the usage check and download_scenes().
DeleteDownload ==
    /\ script = "delete" /\ pc = "main"
    /\ IF argv = <<>>
       THEN Finish("exit", 1) /\ UNCHANGED <<LOCAL_TEMP, failures>>
       ELSE \E o \in ScpOutcomes :
            /\ failures' = Failed(o)
            /\ IF o = "ok"
               THEN /\ LOCAL_TEMP' = SERVER_PATH
                    /\ pc' = "delete"
                    /\ UNCHANGED exit_code
               ELSE Finish("exit", 1) /\ UNCHANGED LOCAL_TEMP
    /\ deleted_count' = 0
    /\ UNCHANGED DeleteFrame
    /\ UNCHANGED <<script, run, dry_run, force_update, idx, argv, SERVER_PATH,
                   ops, writes, remote_before, first>>
    /\ warnings' = IF argv = <<>> THEN Append(warnings, "Usage")
                   ELSE IF pc' = "exit" THEN Append(warnings, "Failed to download")
                   ELSE warnings

\* delete_scenes_by_name(scene_names): exit 1 when the file holds no list,
\* 0 and no write when no scene has one of the names, else the file is
\* written with the remaining scenes.
DeleteByName ==
    /\ script = "delete" /\ pc = "delete"
    /\ IF ~LOCAL_TEMP.is_list
       THEN Finish("exit", 1) /\ UNCHANGED <<LOCAL_TEMP, deleted_count>>
       ELSE LET scenes == LOCAL_TEMP.data
                remaining == remaining_scenes(scenes, argv)
            IN  /\ deleted_count' = Len(scenes) - Len(remaining)
                /\ LOCAL_TEMP' = IF deleted_count' = 0 THEN LOCAL_TEMP
                                 ELSE [LOCAL_TEMP EXCEPT !.data = remaining]
                /\ pc' = "upload" /\ UNCHANGED exit_code
    /\ UNCHANGED DeleteFrame
    /\ UNCHANGED <<script, run, dry_run, force_update, idx, argv, SERVER_PATH,
                   ops, writes, remote_before, first, failures>>
    /\ warnings' =
          IF ~LOCAL_TEMP.is_list
          THEN Append(warnings, "Server scenes.yaml is not a list")
          ELSE IF deleted_count' = 0
          THEN Append(warnings, "No matching scenes found")
          ELSE warnings \o [k \in 1..Cardinality(not_found(LOCAL_TEMP.data, argv))
                               |-> "Scene not found"]

\* The end of main: upload_scenes() when a scene was deleted, else exit 1.
DeleteUpload ==
    /\ script = "delete" /\ pc = "upload"
    /\ IF deleted_count > 0
       THEN \E o \in ScpOutcomes :
            /\ failures' = Failed(o)
            /\ writes' = Append(writes, Write("upload_scenes", o, LOCAL_TEMP))
            /\ SERVER_PATH' = IF o = "ok" THEN LOCAL_TEMP ELSE SERVER_PATH
            /\ IF o = "ok" THEN Finish("done", 0) ELSE Finish("exit", 1)
       ELSE /\ Finish("exit", 1)
            /\ UNCHANGED <<SERVER_PATH, writes, failures>>
    /\ UNCHANGED DeleteFrame
    /\ UNCHANGED <<script, run, dry_run, force_update, idx, argv, LOCAL_TEMP,
                   deleted_count, ops, remote_before, first>>
    /\ warnings' = IF deleted_count = 0
                   THEN Append(warnings, "No scenes were deleted")
                   ELSE IF pc' = "exit" THEN Append(warnings, "Failed to upload")
                   ELSE warnings

DeleteNext ==
    \/ DeleteDownload
    \/ DeleteByName
    \/ DeleteUpload

(* The inputs of delete_scene.py. *)

DeleteNames == {"old", "none", ""}

\* Two scenes of one name, and a scene without a name.
ListedScenes == {Scene("s1", "old"), Scene("s3", "old"), [id |-> "s4"]}

ListedFiles ==
    {[is_list |-> FALSE, data |-> <<>>]}
        \cup {[is_list |-> TRUE, data |-> l] : l \in SeqsUpTo(ListedScenes, MaxListed)}

-----------------------------------------------------------------------------
(* update_exposed_entities.py.  An entity_id is the sequence of its parts, *)
(* <<"light", ".", "lamp">>; a YAML or JSON mapping is a function.         *)

DEFAULT_EXPOSED_DOMAINS ==
    {"climate", "cover", "fan", "humidifier", "light", "media_player",
     "scene", "switch", "todo", "vacuum", "water_heater"}

ADDITIONAL_DOMAINS == {"binary_sensor", "script", "sensor", "assist_satellite"}

ALL_MANAGED_DOMAINS == DEFAULT_EXPOSED_DOMAINS \cup ADDITIONAL_DOMAINS

\* entity_id.split(".")[0]
DomainOf(entity_id) ==
    LET dots == {k \in 1..Len(entity_id) : entity_id[k] = "."}
    IN  IF dots = {} THEN entity_id ELSE SubSeq(entity_id, 1, Min(dots) - 1)

Managed(entity) == DomainOf(entity.entity_id) \in {<<d>> : d \in ALL_MANAGED_DOMAINS}

\* load_exposed_config: the entity ids whose value is True.
load_exposed_config(data) == {e \in DOMAIN data : data[e] = "True"}

\* entity.get("options", {}).get("conversation", {})
ConvOptions(entity) == Get(Get(entity, "options"), "conversation")

\* conv_options.get("should_expose", False) == should_expose
ExposeUnchangedDefaultFalse(entity, should_expose) ==
    IF "should_expose" \in DOMAIN ConvOptions(entity)
    THEN ConvOptions(entity).should_expose = should_expose
    ELSE ~should_expose

\* current_expose == should_expose
ExposeUnchanged(entity, should_expose) ==
    /\ "should_expose" \in DOMAIN ConvOptions(entity)
    /\ ConvOptions(entity).should_expose = should_expose

\* entity["options"] = {"conversation": {"should_expose": should_expose}}
SetExposeFresh(entity, should_expose) ==
    ("options" :> [conversation |-> [should_expose |-> should_expose]]) @@ entity

\* entity["options"]["conversation"]["should_expose"] = should_expose
SetExpose(entity, should_expose) ==
    LET options == Get(entity, "options")
        conv == ("should_expose" :> should_expose) @@ Get(options, "conversation")
    IN  ("options" :> (("conversation" :> conv) @@ options)) @@ entity

\* What the loop of update_registry decides for one entity.
ExposeDecision(entity, expose_entities) ==
    IF ~Managed(entity) THEN "not_in_domain"
    ELSE IF ExposeUnchanged(entity, entity.entity_id \in expose_entities)
    THEN "unchanged"
    ELSE IF entity.entity_id \in expose_entities THEN "exposed" ELSE "hidden"

\* The entities as update_registry leaves them.
update_registry(entities, expose_entities) ==
    [k \in 1..Len(entities) |->
        IF ExposeDecision(entities[k], expose_entities) \in {"exposed", "hidden"}
        THEN SetExpose(entities[k], entities[k].entity_id \in expose_entities)
        ELSE entities[k]]

\* The loop without its stats["hidden"] += 1
CountWithoutHidden(entities, expose_entities, what) ==
    IF what = "hidden" THEN 0
    ELSE Cardinality({k \in 1..Len(entities) :
                        ExposeDecision(entities[k], expose_entities) = what})

\* stats["unchanged"] += 1 also for the entities of other domains
CountUnmanagedAsUnchanged(entities, expose_entities, what) ==
    Cardinality({k \in 1..Len(entities) :
                    ExposeDecision(entities[k], expose_entities)
                        \in (IF what = "unchanged"
                             THEN {"unchanged", "not_in_domain"} ELSE {what})})

Count(entities, expose_entities, what) ==
    Cardinality({k \in 1..Len(entities) :
                    ExposeDecision(entities[k], expose_entities) = what})

Stats(entities, expose_entities) ==
    [w \in {"exposed", "hidden", "unchanged", "not_in_domain"} |->
        Count(entities, expose_entities, w)]

ExposeOps(entities, expose_entities, result) ==
    [k \in 1..Len(entities) |->
        LET d == ExposeDecision(entities[k], expose_entities)
        IN  IF d \in {"exposed", "hidden"}
            THEN Op(<<k>>, entities[k].entity_id, "Update", result, {"should_expose"})
            ELSE Op(<<k>>, entities[k].entity_id, "Skip", d, {})]

\* What update_exposed_entities.py never touches.
ExposeFrame == <<HomeboxVars, AudibleVars, SceneVars, HomekitVars, updated>>

\* main up to the upload: the config file (exit 1 when missing), the
\* download of the registry (check=True, not guarded), update_registry and
\* the return of a dry run.
ExposeUpdate ==
    /\ script = "expose" /\ pc = "main"
    /\ IF ~config_path.exists
       THEN /\ Finish("exit", 1)
            /\ UNCHANGED <<registry, stats, ops, failures>>
       ELSE \E o \in ScpOutcomes :
            /\ failures' = Failed(o)
            /\ IF o # "ok"
               THEN /\ Finish("crash", 1)
                    /\ UNCHANGED <<registry, stats, ops>>
               ELSE LET expose_entities == load_exposed_config(config_path.data)
                    IN  /\ registry' = update_registry(core_entity_registry,
                                                       expose_entities)
                        /\ stats' = Stats(core_entity_registry, expose_entities)
                        /\ ops' = ExposeOps(core_entity_registry, expose_entities,
                                            IF dry_run THEN "dry" ELSE "pending")
                        /\ IF dry_run THEN Finish("done", 0)
                           ELSE pc' = "upload" /\ UNCHANGED exit_code
    /\ UNCHANGED ExposeFrame
    /\ UNCHANGED <<script, run, dry_run, force_update, idx, config_path,
                   core_entity_registry, writes, remote_before, first>>
    /\ warnings' = IF pc' = "exit" THEN Append(warnings, "Error: config not found")
                   ELSE warnings

\* upload_registry(server, updated_registry): scp with check=True.
ExposeUpload ==
    /\ script = "expose" /\ pc = "upload"
    /\ \E o \in ScpOutcomes :
       /\ failures' = Failed(o)
       /\ writes' = Append(writes, Write("upload_registry", o, registry))
       /\ core_entity_registry' = IF o = "ok" THEN registry
                                  ELSE core_entity_registry
       /\ ops' = [k \in 1..Len(ops) |->
                    IF ops[k].kind = "Update"
                    THEN [ops[k] EXCEPT !.result =
                             IF o = "ok" THEN "applied" ELSE "failed"]
                    ELSE ops[k]]
       /\ IF o = "ok" THEN Finish("done", 0) ELSE Finish("crash", 1)
    /\ UNCHANGED ExposeFrame
    /\ UNCHANGED <<script, run, dry_run, force_update, idx, config_path,
                   registry, stats, remote_before, first>>
    /\ UNCHANGED warnings

ExposeNext ==
    \/ ExposeUpdate
    \/ ExposeUpload

(* The inputs of update_exposed_entities.py. *)

LightLamp == <<"light", ".", "lamp">>
ZoneHome == <<"zone", ".", "home">>

\* exposed_entities.yaml: missing, or a mapping of entity ids to values.
ConfigFiles ==
    {[exists |-> FALSE, data |-> <<>>]}
        \cup {[exists |-> TRUE, data |-> d] :
                d \in UNION {[ids -> {"True", "False"}] :
                                ids \in SUBSET {LightLamp, ZoneHome}}}

Entity(entity_id) == [entity_id |-> entity_id]
WithOptions(entity, options) == ("options" :> options) @@ entity

EntitySpace ==
    {Entity(LightLamp), Entity(ZoneHome),
     WithOptions(Entity(LightLamp), <<>>),
     WithOptions(Entity(LightLamp), [cloud |-> "x"]),
     WithOptions(Entity(LightLamp), [conversation |-> <<>>])}
        \cup {WithOptions(Entity(e), [conversation |-> [should_expose |-> b]]) :
                e \in {LightLamp, ZoneHome}, b \in BOOLEAN}

ExposeIdle ==
    /\ config_path = <<>> /\ core_entity_registry = <<>>
    /\ registry = <<>> /\ stats = <<>>

-----------------------------------------------------------------------------
(* update_homekit_entities.py.  A title is the sequence of its parts, a     *)
(* YAML or JSON mapping is a function, a list is a sequence; core_config_   *)
(* entries is the list data.entries of the file.                            *)

HOMEKIT_BRIDGE_TITLE_PATTERN == <<"HASS Bridge">>

Sections ==
    {"include_domains", "include_entities", "exclude_domains", "exclude_entities"}

\* load_homekit_config: data.get(section, []) of `yaml.safe_load(f) or {}`
load_homekit_config(data) ==
    [s \in Sections |-> IF s \in DOMAIN data THEN data[s] ELSE <<>>]

\* The two tests of find_homekit_bridge_entry on one entry.
IsBridge(entry) ==
    /\ "domain" \in DOMAIN entry /\ entry.domain = "homekit"
    /\ \/ /\ "mode" \in DOMAIN Get(entry, "options")
          /\ entry.options.mode = "bridge"
       \/ Contains(Get(entry, "title"), HOMEKIT_BRIDGE_TITLE_PATTERN)

\* find_homekit_bridge_entry: the index of the first such entry, 0 for None
find_homekit_bridge_entry(entries) ==
    LET hits == {k \in 1..Len(entries) : IsBridge(entries[k])}
    IN  IF hits = {} THEN 0 ELSE Min(hits)

\* current_options.get("filter", {})
CurrentFilter(entry) == Get(Get(entry, "options"), "filter")

\* has_changes: some section has an added or a removed member, both being
\* differences of set(...) of the lists.
HasChanges(new_filter, current_filter) ==
    \E s \in Sections :
        LET new == Range(new_filter[s])
            current == Range(Get(current_filter, s))
        IN  (new \ current) # {} \/ (current \ new) # {}

\* The sections with an added or a removed member.
ChangedSections(new_filter, current_filter) ==
    {s \in Sections : Range(new_filter[s]) # Range(Get(current_filter, s))}

\* entry["options"]["filter"] = new_filter
SetFilter(entries, k, new_filter) ==
    [entries EXCEPT ![k] =
        [@ EXCEPT !.options = ("filter" :> new_filter) @@ @]]

\* What update_homekit_entities.py never touches.
HomekitFrame ==
    <<HomeboxVars, AudibleVars, SceneVars, core_entity_registry, registry,
      stats, updated>>

\* main up to the upload: the config file (exit 1 when missing), the
\* download of the config entries (check=True, not guarded),
\* update_homekit_filter (exit 1 without a bridge entry; the assignment at
\* line 160 raises KeyError when the entry has no "options") and the two
\* early returns.
HKUpdate ==
    /\ script = "homekit" /\ pc = "main"
    /\ IF ~config_path.exists
       THEN /\ Finish("exit", 1)
            /\ UNCHANGED <<config_entries, has_changes, ops, failures>>
       ELSE \E o \in ScpOutcomes :
            /\ failures' = Failed(o)
            /\ IF o # "ok"
               THEN /\ Finish("crash", 1)
                    /\ UNCHANGED <<config_entries, has_changes, ops>>
               ELSE LET new_filter == load_homekit_config(config_path.data)
                        k == find_homekit_bridge_entry(core_config_entries)
                    IN  IF k = 0
                        THEN /\ Finish("exit", 1)
                             /\ config_entries' = core_config_entries
                             /\ UNCHANGED <<has_changes, ops>>
                        ELSE LET entry == core_config_entries[k]
                                 current_filter == CurrentFilter(entry)
                                 changes == HasChanges(new_filter, current_filter)
                                 changed == ChangedSections(new_filter,
                                                            current_filter)
                                 title == Get(entry, "title")
                             IN  /\ has_changes' = changes
                                 /\ IF ~changes
                                    THEN /\ config_entries' = core_config_entries
                                         /\ ops' = <<Op(<<k>>, title, "Skip",
                                                        "skipped", {})>>
                                         /\ Finish("done", 0)
                                    ELSE IF dry_run
                                    THEN /\ config_entries' = core_config_entries
                                         /\ ops' = <<Op(<<k>>, title, "Update",
                                                        "dry", changed)>>
                                         /\ Finish("done", 0)
                                    ELSE IF "options" \notin DOMAIN entry
                                    THEN /\ config_entries' = core_config_entries
                                         /\ ops' = <<Op(<<k>>, title, "Update",
                                                        "failed", changed)>>
                                         /\ Finish("crash", 1)
                                    ELSE /\ config_entries' =
                                              SetFilter(core_config_entries, k,
                                                        new_filter)
                                         /\ ops' = <<Op(<<k>>, title, "Update",
                                                        "pending", changed)>>
                                         /\ pc' = "upload"
                                         /\ UNCHANGED exit_code
    /\ UNCHANGED HomekitFrame
    /\ UNCHANGED <<script, run, dry_run, force_update, idx, config_path,
                   core_config_entries, writes, remote_before, first>>
    /\ warnings' =
          IF ~config_path.exists THEN Append(warnings, "Error: config not found")
          ELSE IF pc' = "exit"
          THEN Append(warnings, "Error: HomeKit Bridge config entry not found")
          ELSE warnings

\* upload_config_entries(server, updated_entries): scp with check=True.
HKUpload ==
    /\ script = "homekit" /\ pc = "upload"
    /\ \E o \in ScpOutcomes :
       /\ failures' = Failed(o)
       /\ writes' = Append(writes, Write("upload_config_entries", o,
                                         config_entries))
       /\ core_config_entries' = IF o = "ok" THEN config_entries
                                 ELSE core_config_entries
       /\ ops' = [k \in 1..Len(ops) |->
                    [ops[k] EXCEPT !.result =
                        IF o = "ok" THEN "applied" ELSE "failed"]]
       /\ IF o = "ok" THEN Finish("done", 0) ELSE Finish("crash", 1)
    /\ UNCHANGED HomekitFrame
    /\ UNCHANGED <<script, run, dry_run, force_update, idx, config_path,
                   config_entries, has_changes, remote_before, first>>
    /\ UNCHANGED warnings

HomekitNext ==
    \/ HKUpdate
    \/ HKUpload

(* The inputs of update_homekit_entities.py. *)

\* Lists of domains: empty, one, two in either order, one twice.
DomainLists ==
    {<<>>, <<"light">>, <<"light", "switch">>, <<"switch", "light">>,
     <<"light", "light">>}

\* homekit_exposed.yaml: missing, empty, or a mapping with some sections.
HomekitConfigFiles ==
    {[exists |-> FALSE, data |-> <<>>], [exists |-> TRUE, data |-> <<>>]}
        \cup {[exists |-> TRUE, data |-> [include_domains |-> d]] :
                d \in DomainLists}
        \cup {[exists |-> TRUE,
               data |-> [include_domains |-> d,
                         include_entities |-> <<"light.lamp">>]] :
                d \in DomainLists}

Filter(include_domains) ==
    [include_domains |-> include_domains, include_entities |-> <<>>,
     exclude_domains |-> <<>>, exclude_entities |-> <<>>]

BridgeTitle == <<"HASS Bridge", ":", "21064">>

\* Config entries: the bridge with a stored filter, with options but no
\* filter, or known by its title alone; an accessory-mode entry; an entry of
\* another integration.
EntrySpace ==
    {[domain |-> "homekit", title |-> BridgeTitle,
      options |-> [mode |-> "bridge", filter |-> Filter(d)]] : d \in DomainLists}
        \cup {[domain |-> "homekit", title |-> BridgeTitle,
               options |-> [mode |-> "bridge"]],
              [domain |-> "homekit", title |-> BridgeTitle],
              [domain |-> "homekit", title |-> <<"Lamp">>,
               options |-> [mode |-> "accessory"]],
              [domain |-> "hue", title |-> <<"Hue">>, options |-> <<>>]}

HomekitIdle ==
    /\ core_config_entries = <<>> /\ config_entries = <<>>
    /\ has_changes = FALSE

-----------------------------------------------------------------------------
(* is_physical_device on its own: one device record drawn from names,      *)
(* makers and models on both sides of every rule.                          *)

ClassifierNames ==
    {None, Lamp, Sun, <<"s", "u", "n">>, <<"S", "u", "n", "n", "y">>,
     <<"m", "y", " ", "i", "p", "a", "d">>, <<"x", "-", "N", "E", "T">>,
     <<"[", "l", "g", "]", " ", "T", "V">>}

ClassifierManufacturers ==
    {None, Acme, <<"k", "o", "u", "s", "h">>, <<"K", "o", "u", "s", "h">>,
     <<"c", "l", "o", "o", "o", "s">>}

ClassifierModels ==
    {None, X1, <<"M", "y", " ", "P", "l", "u", "g", "i", "n">>,
     <<"p", "l", "u", "g">>}

ClassifierDevices ==
    {[name |-> n, name_by_user |-> u, manufacturer |-> m, model |-> mo,
      disabled_by |-> d, area_id |-> None, id |-> DeviceId(1), labels |-> <<>>] :
        n \in ClassifierNames, u \in {None, Lamp, Sun},
        m \in ClassifierManufacturers, mo \in ClassifierModels,
        d \in {None, <<"user">>}}

\* physical_devices = [d for d in devices if is_physical_device(d)]
Classify ==
    /\ script = "classifier" /\ pc = "main"
    /\ physical_devices' = SelectSeq(ha_devices, is_physical_device)
    /\ Finish("done", 0)
    /\ UNCHANGED <<AudibleVars, SceneVars, ExposeVars, HomekitVars>>
    /\ UNCHANGED <<script, run, dry_run, force_update, idx, ha_devices, ha_areas,
                   hb_locations, hb_items, devices, areas, existing,
                   area_to_location, existing_by_name, created, updated,
                   skipped, ops, writes, remote_before, first, failures>>
    /\ UNCHANGED warnings

HomeboxInit ==
    /\ script = "homebox" /\ pc = "main" /\ run = 1
    /\ dry_run \in BOOLEAN /\ force_update \in BOOLEAN
    /\ exit_code = <<>> /\ idx = 0
    /\ ha_devices \in DeviceLists
    /\ ha_areas \in AreaLists
    /\ hb_locations \in LocationLists
    /\ hb_items \in ItemLists(hb_locations)
    /\ Len(ha_devices) + Len(hb_items) <= MaxRecords
    /\ HomeboxLocalsInit
    /\ AudibleIdle /\ AudibleLocalsInit /\ SceneIdle /\ ExposeIdle
    /\ HomekitIdle
    /\ ObservationInit

AudibleInit ==
    /\ script = "audible" /\ pc = "main" /\ run = 1
    /\ dry_run \in BOOLEAN /\ force_update = FALSE
    /\ exit_code = <<>> /\ idx = 0
    /\ LIBRARY_FILE \in LibraryFiles
    /\ abs_items \in AbsLists
    /\ Len(LIBRARY_FILE.items) + Len(abs_items) <= MaxRecords
    /\ AudibleLocalsInit
    /\ HomeboxIdle /\ HomeboxLocalsInit /\ SceneIdle /\ ExposeIdle
    /\ HomekitIdle
    /\ ObservationInit

ClassifierInit ==
    /\ script = "classifier" /\ pc = "main" /\ run = 1
    /\ dry_run = FALSE /\ force_update = FALSE
    /\ exit_code = <<>> /\ idx = 0
    /\ ha_devices \in {<<d>> : d \in ClassifierDevices}
    /\ ha_areas = <<>> /\ hb_locations = <<>> /\ hb_items = <<>>
    /\ HomeboxLocalsInit
    /\ AudibleIdle /\ AudibleLocalsInit /\ SceneIdle /\ ExposeIdle
    /\ HomekitIdle
    /\ ObservationInit

SceneInit ==
    /\ script = "scene" /\ pc = "main" /\ run = 1
    /\ dry_run = FALSE /\ force_update = FALSE
    /\ exit_code = <<>> /\ idx = 0
    /\ argv \in SeqsUpTo(LocalFiles, MaxFiles)
    /\ SERVER_PATH \in ServerFiles
    /\ LOCAL_TEMP = NoFile /\ updated_count = 0 /\ deleted_count = 0
    /\ HomeboxIdle /\ HomeboxLocalsInit /\ AudibleIdle /\ AudibleLocalsInit
    /\ ExposeIdle
    /\ HomekitIdle
    /\ ObservationInit

DeleteInit ==
    /\ script = "delete" /\ pc = "main" /\ run = 1
    /\ dry_run = FALSE /\ force_update = FALSE
    /\ exit_code = <<>> /\ idx = 0
    /\ argv \in SeqsUpTo(DeleteNames, MaxNames)
    /\ SERVER_PATH \in ListedFiles
    /\ LOCAL_TEMP = NoFile /\ updated_count = 0 /\ deleted_count = 0
    /\ HomeboxIdle /\ HomeboxLocalsInit /\ AudibleIdle /\ AudibleLocalsInit
    /\ ExposeIdle
    /\ HomekitIdle
    /\ ObservationInit

ExposeInit ==
    /\ script = "expose" /\ pc = "main" /\ run = 1
    /\ dry_run \in BOOLEAN /\ force_update = FALSE
    /\ exit_code = <<>> /\ idx = 0
    /\ config_path \in ConfigFiles
    /\ core_entity_registry \in SeqsUpTo(EntitySpace, MaxEntities)
    /\ registry = <<>> /\ stats = <<>>
    /\ HomeboxIdle /\ HomeboxLocalsInit /\ AudibleIdle /\ AudibleLocalsInit
    /\ SceneIdle
    /\ HomekitIdle
    /\ ObservationInit

HomekitInit ==
    /\ script = "homekit" /\ pc = "main" /\ run = 1
    /\ dry_run \in BOOLEAN /\ force_update = FALSE
    /\ exit_code = <<>> /\ idx = 0
    /\ config_path \in HomekitConfigFiles
    /\ core_config_entries \in SeqsUpTo(EntrySpace, MaxEntries)
    /\ config_entries = <<>> /\ has_changes = FALSE
    /\ core_entity_registry = <<>> /\ registry = <<>> /\ stats = <<>>
    /\ HomeboxIdle /\ HomeboxLocalsInit /\ AudibleIdle /\ AudibleLocalsInit
    /\ SceneIdle
    /\ ObservationInit

-----------------------------------------------------------------------------
(* A second invocation of the same script, not a dry run, on the remote    *)
(* state the first one left; explored after a first run that met no        *)
(* failure.                                                                *)
Rerun ==
    /\ pc = "done" /\ run = 1 /\ failures = 0
    /\ run' = 2
    /\ first' = [dry_run |-> dry_run, ops |-> ops, writes |-> writes,
                 exit_code |-> exit_code]
    /\ dry_run' = FALSE
    /\ pc' = "main" /\ exit_code' = <<>> /\ idx' = 0
    /\ devices' = <<>> /\ areas' = <<>>
    /\ existing' = EmptyDict /\ area_to_location' = EmptyDict
    /\ existing_by_name' = EmptyDict /\ physical_devices' = <<>>
    /\ created' = 0 /\ updated' = 0 /\ skipped' = 0
    /\ abs_by_asin' = EmptyDict /\ needs_update' = <<>> /\ errors' = 0
    /\ LOCAL_TEMP' = NoFile /\ updated_count' = 0 /\ deleted_count' = 0
    /\ registry' = <<>> /\ stats' = <<>>
    /\ config_entries' = <<>> /\ has_changes' = FALSE
    /\ ops' = <<>> /\ writes' = <<>>
    /\ remote_before' = Remote
    /\ UNCHANGED <<script, force_update, ha_devices, ha_areas, hb_locations,
                   hb_items, LIBRARY_FILE, abs_items, argv, SERVER_PATH,
                   config_path, core_entity_registry, core_config_entries,
                   failures>>
    /\ warnings' = <<>>

Init ==
    \/ HomeboxInit \/ AudibleInit \/ SceneInit \/ ExposeInit \/ HomekitInit
    \/ DeleteInit

Next ==
    \/ HomeboxNext \/ AudibleNext \/ SceneNext \/ ExposeNext \/ HomekitNext
    \/ DeleteNext \/ Rerun

HomeboxSpec == HomeboxInit /\ [][HomeboxNext \/ Rerun]_vars

AudibleSpec == AudibleInit /\ [][AudibleNext \/ Rerun]_vars

ClassifierSpec == ClassifierInit /\ [][Classify]_vars

SceneSpec == SceneInit /\ [][SceneNext \/ Rerun]_vars

ExposeSpec == ExposeInit /\ [][ExposeNext \/ Rerun]_vars

HomekitSpec == HomekitInit /\ [][HomekitNext \/ Rerun]_vars

DeleteSpec == DeleteInit /\ [][DeleteNext \/ Rerun]_vars

Spec == Init /\ [][Next]_vars

-----------------------------------------------------------------------------
(* Properties. *)

Ended == pc \in {"done", "exit", "crash"}

FailedWrite == \E k \in 1..Len(writes) : writes[k].outcome # "ok"

\* The multiset of (desired record, kind of operation) of a log.
OpBag(log) ==
    LET pairs == {<<log[k].key, log[k].kind>> : k \in 1..Len(log)}
    IN  [p \in pairs |->
            Cardinality({k \in 1..Len(log) : <<log[k].key, log[k].kind>> = p})]

OnlySkips(log) == \A k \in 1..Len(log) : log[k].kind = "Skip"

\* C1: a second pass over the same desired records, on the remote state
\* that a first non-dry-run pass without any failure left, emits only Skip
\* (device sync, audiobook sync, entity exposure; the force flag not set).
C1_SecondPassOnlySkips ==
    (/\ script \in {"homebox", "audible", "expose"}
     /\ run = 2 /\ ~first.dry_run /\ ~force_update)
        => OnlySkips(ops)

FinishesFully(body) ==
    /\ "isFinished" \in DOMAIN body /\ body.isFinished
    /\ "progress" \in DOMAIN body /\ body.progress = FullProgress

PatchedFully(title) ==
    \E k \in 1..Len(writes) :
        /\ writes[k].data.title = title /\ writes[k].outcome = "ok"
        /\ FinishesFully(writes[k].data.body)

AudiblePassDone == script = "audible" /\ pc = "done" /\ ~dry_run /\ errors = 0

\* C2 as claimed: after a pass without errors, every matched Audible item
\* above 95 percent whose Audiobookshelf item was not finished has been
\* patched to finished with progress 1.0, whatever progress was stored.
C2_ThresholdWhateverRemote ==
    AudiblePassDone =>
        \A k \in 1..Len(LIBRARY_FILE.items) :
            LET item == LIBRARY_FILE.items[k]
            IN  (/\ item.asin \in DOMAIN abs_by_asin
                 /\ item.percent_complete > 95
                 /\ ~abs_by_asin[item.asin].is_finished)
                    => PatchedFully(item.title)

\* C2 as amended: after a pass without errors, every matched Audible item
\* above 95 percent that is not flagged finished, whose Audiobookshelf item
\* was not finished, has been patched to finished with progress 1.0 when the
\* stored progress and current time were both 0, and has not been patched at
\* all when either was non-zero.
C2_ThresholdWhenRemoteEmpty ==
    AudiblePassDone =>
        \A k \in 1..Len(LIBRARY_FILE.items) :
            LET item == LIBRARY_FILE.items[k]
            IN  (/\ item.asin \in DOMAIN abs_by_asin
                 /\ ~item.is_finished
                 /\ item.percent_complete > 95
                 /\ ~abs_by_asin[item.asin].is_finished)
                    => IF /\ abs_by_asin[item.asin].progress = 0
                          /\ abs_by_asin[item.asin].current_time = 0
                       THEN PatchedFully(item.title)
                       ELSE \A j \in 1..Len(writes) : writes[j].data.title # item.title

C2_Witness ==
    /\ AudiblePassDone
    /\ \E k \in 1..Len(LIBRARY_FILE.items) :
          /\ LIBRARY_FILE.items[k].percent_complete > 95
          /\ ~LIBRARY_FILE.items[k].is_finished
          /\ PatchedFully(LIBRARY_FILE.items[k].title)

\* C3: a device sync or audiobook sync pass in which a write failed still
\* runs to its final summary.
C3_FailedWriteNeverAborts ==
    (script \in {"homebox", "audible"} /\ FailedWrite /\ Ended) => pc = "done"

\* C4: a dry run issues no write and leaves the remote state as it found it.
C4_DryRunWritesNothing == dry_run => (writes = <<>> /\ Remote = remote_before)

C4_Witness ==
    /\ dry_run /\ pc = "done"
    /\ \E k \in 1..Len(ops) : ops[k].kind \in {"Create", "Update"}
    /\ script = "homebox"
    /\ \E a \in DOMAIN area_to_location : area_to_location[a] = DryRunId(a)

\* Every failure of the run so far was the failure of a write.
OnlyWritesFailed ==
    failures = Cardinality({k \in 1..Len(writes) : writes[k].outcome # "ok"})

\* C5: the real pass of the device sync, once it has read the inputs that
\* the dry run read, produces the multiset of operations the dry run reported.
C5_DryRunSameOperations ==
    (script = "homebox" /\ run = 2 /\ first.dry_run /\ Ended /\ OnlyWritesFailed)
        => OpBag(ops) = OpBag(first.ops)

\* C6: a pass of the device sync or of the scene update that exits with
\* status 0 has no failed operation and no desired record left unmatched.
C6_ExitZeroMeansNoFailure ==
    (script \in {"homebox", "scene"} /\ Ended /\ exit_code = <<0>>)
        => \A k \in 1..Len(ops) : ops[k].result \notin {"failed", "unmatched"}

\* C7: no two operations of a pass are for the same desired record.
C7_OneOperationPerRecord ==
    \A i, j \in 1..Len(ops) : ops[i].key = ops[j].key => i = j

C7_Witness ==
    /\ script = "audible" /\ pc = "done" /\ Len(ops) >= 2
    /\ \E k \in 1..Len(ops) : ops[k].kind = "Update" /\ ops[k].result = "applied"

NoEmptyUpdate ==
    \A k \in 1..Len(ops) : ops[k].kind = "Update" => ops[k].changed # {}

\* C8 as claimed: the device sync never emits an Update that changes no
\* field, the force flag set or not.
C8_UpdateChangesAField == script = "homebox" => NoEmptyUpdate

\* C8 as amended: without the force flag the device sync never emits an
\* Update that changes no field.
C8_UpdateWithoutForceChangesAField ==
    (script = "homebox" /\ ~force_update) => NoEmptyUpdate

C8_Witness ==
    /\ script = "homebox" /\ ~force_update
    /\ \E k \in 1..Len(ops) :
          /\ ops[k].kind = "Update" /\ ops[k].result = "applied"
          /\ "quantity" \in ops[k].changed

\* The rules of the classifier, each on its own.
NameDenied(device) ==
    \E k \in 1..Len(EXCLUDE_PATTERNS) :
        re_search(EXCLUDE_PATTERNS[k], ClassifierName(device))
MakerDenied(device) == device.manufacturer \in Range(EXCLUDE_MANUFACTURERS)
ModelDenied(device) ==
    \E k \in 1..Len(EXCLUDE_MODELS) :
        Contains(Lower(device.model), Lower(EXCLUDE_MODELS[k]))
NameEmpty(device) == device.name = <<>> /\ device.name_by_user = <<>>
Disabled(device) == device.disabled_by # None

HomeboxLastWins ==
    \A k \in 1..Len(writes) :
        writes[k].call = "update_item" =>
            LET before == remote_before.hb_items
                same == {j \in 1..Len(before) : before[j].name = writes[k].data.name}
            IN  writes[k].data.id = before[Max(same)].id

\* The audiobook sync patches the last item of the remote list with the asin.
AudibleLastWins ==
    \A k \in 1..Len(needs_update) :
        LET before == remote_before.abs_items
            same == {j \in 1..Len(before) : before[j].asin = needs_update[k].asin}
        IN  needs_update[k].abs_id = before[Max(same)].id

\* The scenes of the server's file with the id of the local file of an op.
SameId(op) ==
    LET before == remote_before.SERVER_PATH.data
    IN  {j \in 1..Len(before) : Get(before[j], "id") = argv[op.key[2]].data.id}

SceneLastWins ==
    script = "scene" =>
        \A k \in 1..Len(ops) :
            ops[k].kind = "Update" => ops[k].name = <<Max(SameId(ops[k]))>>

SceneFirstWins ==
    script = "scene" =>
        \A k \in 1..Len(ops) :
            ops[k].kind = "Update" => ops[k].name = <<Min(SameId(ops[k]))>>

\* C10 as claimed: in every script the update goes to the last of the
\* remote records that share the key of the desired record.
C10_LastWinsEverywhere == HomeboxLastWins /\ AudibleLastWins /\ SceneLastWins

\* C10 as amended: the device sync (by name) and the audiobook sync (by
\* asin) update the last of the remote records that share the key; the scene
\* and automation updates (by id) replace the first.
C10_LastWinsButSceneFirst == HomeboxLastWins /\ AudibleLastWins /\ SceneFirstWins

C10_Witness ==
    /\ script = "homebox" /\ pc = "done"
    /\ Len(remote_before.hb_items) = 2
    /\ remote_before.hb_items[1].name = remote_before.hb_items[2].name
    /\ \E k \in 1..Len(writes) :
          writes[k].call = "update_item" /\ writes[k].outcome = "ok"

\* C11: a pass that a failed fetch ended (a failure that was not the
\* failure of a write) has issued no write.
C11_FetchFailureBeforeAnyWrite ==
    (pc \in {"exit", "crash"} /\ failures > 0 /\ ~FailedWrite) => writes = <<>>

\* A local file that holds a scene with an id.
ValidFile(f) == f.exists /\ f.data # None /\ "id" \in DOMAIN f.data

\* The files main has handed to update_scene_from_file so far.
Processed == IF idx > 0 THEN idx - 1 ELSE 0

ScenesBefore == remote_before.SERVER_PATH

\* The valid files handled so far that replace scene i of the server's list.
Replacing(i) ==
    {k \in 1..Processed :
        /\ ValidFile(argv[k])
        /\ argv[k].data.id = Get(ScenesBefore.data[i], "id")
        /\ \A j \in 1..(i - 1) :
              Get(ScenesBefore.data[j], "id") # Get(ScenesBefore.data[i], "id")}

\* The downloaded list holds, scene by scene, the last valid file that
\* replaces the scene, or the scene of the server.
OnlyValidFilesApplied ==
    idx > 0 =>
        /\ LOCAL_TEMP.is_list = ScenesBefore.is_list
        /\ Len(LOCAL_TEMP.data) = Len(ScenesBefore.data)
        /\ \A i \in 1..Len(ScenesBefore.data) :
              LOCAL_TEMP.data[i] = IF Replacing(i) = {} \/ ~ScenesBefore.is_list
                                   THEN ScenesBefore.data[i]
                                   ELSE argv[Max(Replacing(i))].data

\* Every file gets its turn: one operation per file handled, and the loop
\* ends only behind the last file.
EveryFileHandled ==
    /\ Len(ops) = Processed
    /\ \A k \in 1..Len(ops) : ops[k].key = FileKey(k)
    /\ (Ended /\ idx > 0) => idx = Len(argv) + 1

NoSceneWithId(file, scenes) ==
    \A i \in 1..Len(scenes) : Get(scenes[i], "id") # file.data.id

\* C13: a valid local file whose id is on no scene of the server yields a
\* Skip reported as not found, nothing is appended to the list for it, and
\* the files after it are still handled.
C13_UnmatchedSceneSkipped ==
    script = "scene" =>
        /\ \A k \in 1..Processed :
              (ValidFile(argv[k]) /\ NoSceneWithId(argv[k], ScenesBefore.data))
                  => /\ ops[k].kind = "Skip" /\ ops[k].result = "unmatched"
                     /\ NoSceneWithId(argv[k], LOCAL_TEMP.data)
        /\ idx > 0 => Len(LOCAL_TEMP.data) = Len(ScenesBefore.data)
        /\ EveryFileHandled

C13_Witness ==
    /\ script = "scene" /\ pc = "done" /\ Len(ops) = 2
    /\ ops[1].kind = "Skip" /\ ops[1].result = "unmatched"
    /\ ops[2].kind = "Update" /\ ops[2].result = "applied"

\* The devices the sync is about: those its filter has kept, if named.
InScope(device) == device \in Range(physical_devices) /\ Truthy(SyncName(device))

\* The names of the remote items the pass has fetched.
RemoteNames == {NameOf(it) : it \in Range(remote_before.hb_items)}

\* C14: in the device sync every Create is for an in-scope device whose name
\* is on no remote item, no device has two Creates, and a pass that ran to
\* its end has one for each such device.
C14_CreateExactlyOncePerUnmatched ==
    script = "homebox" =>
        /\ \A k \in 1..Len(ops) :
              ops[k].kind = "Create" =>
                  /\ ops[k].name \notin RemoteNames
                  /\ \A j \in 1..Len(ops) :
                        (ops[j].kind = "Create" /\ ops[j].key = ops[k].key) => j = k
                  /\ \E d \in Range(physical_devices) :
                        d.id = ops[k].key /\ SyncName(d) = ops[k].name /\ InScope(d)
        /\ pc = "done" =>
              \A d \in Range(physical_devices) :
                  (SyncName(d) \notin RemoteNames /\ InScope(d))
                      => \E k \in 1..Len(ops) :
                            ops[k].kind = "Create" /\ ops[k].key = d.id

C14_Witness ==
    /\ script = "homebox" /\ pc = "done" /\ Len(ops) = 2
    /\ ops[1].kind = "Create" /\ ops[2].kind = "Create"
    /\ ops[1].name = ops[2].name

\* The entity ids that exposed_entities.yaml lists as true.
DesiredExposed == {e \in DOMAIN config_path.data : config_path.data[e] = "True"}

RegistryBefore == remote_before.core_entity_registry

\* The entity carries options.conversation.should_expose with this value.
StoresExpose(entity, value) ==
    /\ "options" \in DOMAIN entity
    /\ "conversation" \in DOMAIN entity.options
    /\ "should_expose" \in DOMAIN entity.options.conversation
    /\ entity.options.conversation.should_expose = value

\* C15: once update_registry has run, the registry holds the entities of the
\* server in their order, and every one of a managed domain stores
\* should_expose = (its id is listed as true); a pass that ends with status 0
\* and is no dry run has put that registry on the server.
C15_ManagedEntitiesMatchConfig ==
    (script = "expose" /\ pc \in {"upload", "done"}) =>
        /\ Len(registry) = Len(RegistryBefore)
        /\ \A k \in 1..Len(registry) :
              /\ registry[k].entity_id = RegistryBefore[k].entity_id
              /\ Managed(registry[k]) =>
                    StoresExpose(registry[k],
                                 registry[k].entity_id \in DesiredExposed)
        /\ (pc = "done" /\ ~dry_run) => core_entity_registry = registry

C15_Witness ==
    /\ script = "expose" /\ pc = "done" /\ ~dry_run /\ run = 1
    /\ \E k \in 1..Len(registry) :
          /\ Managed(registry[k])
          /\ "options" \notin DOMAIN RegistryBefore[k]
          /\ StoresExpose(registry[k], TRUE)
    /\ \E k \in 1..Len(registry) :
          /\ Managed(registry[k])
          /\ "conversation" \in DOMAIN Get(RegistryBefore[k], "options")
          /\ "should_expose" \notin DOMAIN RegistryBefore[k].options.conversation
          /\ StoresExpose(registry[k], TRUE)

\* The filter that homekit_exposed.yaml asks for: its four lists, empty
\* where the file has none.
DesiredFilter ==
    [s \in Sections |->
        IF s \in DOMAIN config_path.data THEN config_path.data[s] ELSE <<>>]

\* The bridge entry of a list of config entries, 0 when there is none.
BridgeOf(entries) == find_homekit_bridge_entry(entries)

StoredFilter(entries) == CurrentFilter(entries[BridgeOf(entries)])

\* C16: a HomeKit pass that is no dry run, found its config file and the
\* bridge entry and met no failed transfer leaves the desired filter stored
\* on the server, and has uploaded exactly when the filter stored before
\* differed from the desired one.
C16_StoredFilterIsDesired ==
    (/\ script = "homekit" /\ Ended /\ ~dry_run /\ failures = 0
     /\ config_path.exists /\ BridgeOf(remote_before.core_config_entries) # 0)
        => /\ StoredFilter(core_config_entries) = DesiredFilter
           /\ writes # <<>>
                 <=> StoredFilter(remote_before.core_config_entries) # DesiredFilter

\* Two items of the Homebox the pass fetched carry one name, or two items of
\* the Audiobookshelf it fetched one ASIN.
RemoteHasDuplicateKeys ==
    \/ /\ script = "homebox"
       /\ \E i, j \in 1..Len(remote_before.hb_items) :
             i # j /\ NameOf(remote_before.hb_items[i])
                        = NameOf(remote_before.hb_items[j])
    \/ /\ script = "audible"
       /\ \E i, j \in 1..Len(remote_before.abs_items) :
             i # j /\ remote_before.abs_items[i].asin
                        = remote_before.abs_items[j].asin

DuplicateKeyWarning == "Duplicate key"

\* C17: a pass that has emitted an operation over a remote record set with
\* two records of one key has printed a warning about the duplicate.
C17_DuplicateKeysReported ==
    (RemoteHasDuplicateKeys /\ ops # <<>>)
        => \E k \in 1..Len(warnings) : warnings[k] = DuplicateKeyWarning

\* The item of a list that a name is resolved to: the last that carries it.
MatchedItem(items, name) == items[LastIndex(items, name)]

\* The operations of a log for devices whose fetched item has quantity zero.
ZeroQuantityOps(log, items) ==
    {k \in 1..Len(log) :
        /\ log[k].name \in {NameOf(it) : it \in Range(items)}
        /\ MatchedItem(items, log[k].name).quantity = 0}

\* C18: in the device sync a device matched to an item of quantity zero
\* yields an Update, whatever its location; once that Update has succeeded
\* the item on the server has a quantity other than zero, and so has the item
\* the second pass fetches.
C18_ZeroQuantityUpdatedOnce ==
    script = "homebox" =>
        /\ \A k \in ZeroQuantityOps(ops, remote_before.hb_items) :
              /\ ops[k].kind = "Update"
              /\ ops[k].result = "applied" =>
                    \A j \in 1..Len(hb_items) :
                        hb_items[j].id
                            = MatchedItem(remote_before.hb_items, ops[k].name).id
                          => hb_items[j].quantity # 0
        /\ (run = 2 /\ ~first.dry_run) =>
              \A k \in 1..Len(first.ops) :
                  (first.ops[k].kind = "Update" /\ first.ops[k].result = "applied")
                      => MatchedItem(remote_before.hb_items,
                                     first.ops[k].name).quantity # 0

C18_Witness ==
    /\ script = "homebox" /\ pc = "done" /\ ~force_update
    /\ \E k \in ZeroQuantityOps(ops, remote_before.hb_items) :
          /\ ops[k].result = "applied"
          /\ "locationId" \notin ops[k].changed
          /\ MatchedItem(remote_before.hb_items, ops[k].name).location # None

\* The operations of the pass for devices whose name a fetched item carries.
MatchedOps ==
    {k \in 1..Len(ops) : ops[k].name \in RemoteNames}

DeviceOf(op) == CHOOSE d \in Range(devices) : d.id = op.key

\* The desired location is set and is not the item's, or the item's
\* quantity is zero.
LocationOrQuantityDiffers(device, item) ==
    \/ /\ LocationIdOf(device) # None
       /\ item.location # LocationIdOf(device)
    \/ item.quantity = 0

\* C19: in the device sync, with the force flag every matched device yields
\* an Update and a pass that ran to its end has one for each of them;
\* without the flag a matched device yields an Update exactly if its
\* desired location is set and differs from the item's or the item's
\* quantity is zero, and a Skip otherwise.
C19_ForceFlagWidensUpdate ==
    script = "homebox" =>
        /\ \A k \in MatchedOps :
              /\ ops[k].kind \in {"Update", "Skip"}
              /\ force_update => ops[k].kind = "Update"
              /\ ~force_update =>
                    (ops[k].kind = "Update"
                        <=> LocationOrQuantityDiffers(
                                DeviceOf(ops[k]),
                                MatchedItem(remote_before.hb_items, ops[k].name)))
        /\ (pc = "done" /\ force_update) =>
              \A d \in Range(devices) :
                  (InScope(d) /\ SyncName(d) \in RemoteNames)
                      => \E k \in MatchedOps :
                            ops[k].key = d.id /\ ops[k].kind = "Update"

C19_Witness ==
    /\ script = "homebox" /\ pc = "done" /\ force_update
    /\ \E k \in MatchedOps :
          /\ ops[k].kind = "Update"
          /\ ~LocationOrQuantityDiffers(
                 DeviceOf(ops[k]), MatchedItem(remote_before.hb_items, ops[k].name))

\* The entities of the server's registry that are managed and already store
\* the exposure the config file asks for.
InSyncEntities ==
    {k \in 1..Len(RegistryBefore) :
        /\ Managed(RegistryBefore[k])
        /\ StoresExpose(RegistryBefore[k],
                        RegistryBefore[k].entity_id \in DesiredExposed)}

SkipOps == {k \in 1..Len(ops) : ops[k].kind = "Skip"}

\* The Updates and Creates of the device sync that went to the writer.
DispatchedOps ==
    {k \in 1..Len(ops) : ops[k].kind \in {"Update", "Create"} /\ ops[k].result # "dry"}

\* The calls of update_item and create_item.
ItemWrites ==
    {k \in 1..Len(writes) : writes[k].call \in {"update_item", "create_item_post"}}

\* C20: in the device sync the skipped counter is the number of Skips, and
\* there is one call of update_item or create_item per Update or Create of a
\* run that is no dry run, none for a Skip; in the entity exposure the
\* unchanged counter is the number of managed entities already in sync, each
\* has a Skip and is left in the registry as the server had it.
C20_SkipsCountedNotDispatched ==
    /\ script = "homebox" =>
          /\ skipped = Cardinality(SkipOps)
          /\ Cardinality(ItemWrites) = Cardinality(DispatchedOps)
    /\ (script = "expose" /\ pc \in {"upload", "done"}) =>
          /\ stats["unchanged"] = Cardinality(InSyncEntities)
          /\ \A k \in InSyncEntities :
                ops[k].kind = "Skip" /\ registry[k] = RegistryBefore[k]

C20_Witness ==
    /\ script = "homebox" /\ pc = "done" /\ ~dry_run /\ ~force_update
    /\ skipped = 1 /\ Cardinality(ItemWrites) = 1 /\ Len(ops) = 2

\* The calls of update_item of the pass.
UpdateItemWrites == {k \in 1..Len(writes) : writes[k].call = "update_item"}

\* The fields of a body of update_item that the fetched item already holds.
SameAsFetched(data) ==
    LET item == MatchedItem(remote_before.hb_items, data.name)
    IN  {f \in DOMAIN data \ {"id", "locationId"} : item[f] = data[f]}
          \cup (IF "locationId" \in DOMAIN data /\ item.location = data.locationId
                THEN {"locationId"} ELSE {})

\* The Updates of the scene update.
SceneUpdateOps == {k \in 1..Len(ops) : ops[k].kind = "Update"}

\* C21 as claimed: no body of update_item holds a field whose fetched value
\* is already the one sent, and no scene is replaced by a record with a key
\* whose value the server's scene already had.
C21_UpdateCarriesOnlyChanges ==
    /\ script = "homebox" =>
          \A k \in UpdateItemWrites : SameAsFetched(writes[k].data) = {}
    /\ script = "scene" =>
          \A k \in SceneUpdateOps : ops[k].changed = DOMAIN argv[k].data

\* The body that carries every tracked field of the device.
WholeRecord(device, data) ==
    /\ DOMAIN data \ {"locationId"}
          = {"id", "name", "description", "manufacturer", "modelNumber",
             "notes", "quantity"}
    /\ data.name = SyncName(device)
    /\ data.description = Description(device)
    /\ data.manufacturer = device.manufacturer
    /\ data.modelNumber = device.model
    /\ data.notes = Notes(device)
    /\ data.quantity = 1
    /\ IF LocationIdOf(device) # None
       THEN "locationId" \in DOMAIN data /\ data.locationId = LocationIdOf(device)
       ELSE "locationId" \notin DOMAIN data

\* C21 as amended: every body of update_item is the whole record of a device
\* the sync has kept, under the id of the item its name is matched to, and
\* every scene an Update has replaced is the whole record of a local file;
\* the fields that changed are among those sent.
C21_UpdateCarriesWholeRecord ==
    /\ script = "homebox" =>
          /\ \A k \in UpdateItemWrites :
                /\ writes[k].data.id
                      = MatchedItem(remote_before.hb_items, writes[k].data.name).id
                /\ \E d \in Range(physical_devices) : WholeRecord(d, writes[k].data)
          /\ \A k \in 1..Len(ops) :
                ops[k].kind = "Update" =>
                    ops[k].changed \subseteq
                        {"name", "description", "manufacturer", "modelNumber",
                         "notes", "quantity", "locationId"}
    /\ script = "scene" =>
          \A k \in SceneUpdateOps :
              /\ ops[k].changed \subseteq DOMAIN argv[k].data
              /\ \E j \in k..Processed :
                    ValidFile(argv[j]) /\ LOCAL_TEMP.data[ops[k].name[1]] = argv[j].data

C21_Witness ==
    /\ script = "homebox" /\ pc = "done"
    /\ \E k \in UpdateItemWrites :
          /\ writes[k].outcome = "ok"
          /\ "locationId" \in DOMAIN writes[k].data
          /\ SameAsFetched(writes[k].data) = {"name", "locationId"}

\* The place of a title in the plan of compare, and what is planned for it.
PlanIndex(title) ==
    CHOOSE i \in 1..Len(needs_update) : needs_update[i].title = title

PlannedAction(title) == needs_update[PlanIndex(title)].action

\* The last operation of the device sync went to the writer.
LastOpDispatched == ops # <<>> /\ Len(ops) \in DispatchedOps

\* In the device sync the calls follow the operations one by one: as many
\* calls of update_item and create_item as operations dispatched, the last
\* call being for the last operation whenever that one was dispatched.
DeviceWritesFollowOps ==
    /\ Cardinality(ItemWrites) = Cardinality(DispatchedOps)
    /\ LastOpDispatched =>
          /\ writes # <<>>
          /\ writes[Len(writes)].call # "create_location"
          /\ writes[Len(writes)].data.name = ops[Len(ops)].name

\* C22 as claimed: the calls of the writer are in the order of the
\* operations, in the audiobook sync in the order of the plan of compare.
C22_WritesInPlanOrder ==
    /\ script = "homebox" => DeviceWritesFollowOps
    /\ script = "audible" =>
          \A a, b \in 1..Len(writes) :
              a < b => PlanIndex(writes[a].data.title)
                          < PlanIndex(writes[b].data.title)

\* C22 as amended: the device sync calls the writer in the order of its
\* operations; the audiobook sync sends every mark_finished before every
\* set_progress, and each of the two kinds in the order of the plan.
C22_WritesInPlanOrderPerKind ==
    /\ script = "homebox" => DeviceWritesFollowOps
    /\ script = "audible" =>
          \A a, b \in 1..Len(writes) :
              a < b =>
                  LET ta == writes[a].data.title
                      tb == writes[b].data.title
                  IN  IF PlannedAction(ta) = PlannedAction(tb)
                      THEN PlanIndex(ta) < PlanIndex(tb)
                      ELSE /\ PlannedAction(ta) = "mark_finished"
                           /\ PlannedAction(tb) = "set_progress"

C22_Witness ==
    /\ script = "audible" /\ pc = "done" /\ Len(writes) = 2
    /\ Len(needs_update) = 2
    /\ needs_update[1].action = "set_progress"
    /\ needs_update[2].action = "mark_finished"
    /\ writes[1].data.title = needs_update[2].title

\* The devices of the pass that sync_devices does not pass over.
ProcessedDevices ==
    {k \in 1..Len(physical_devices) : Truthy(SyncName(physical_devices[k]))}

\* C23: at the end of a device sync pass the counts of the summary account
\* for every in-scope device processed: sync_devices keeps no count of
\* errors, so created + updated + skipped is all the summary holds, and
\* the sum equals the number of devices processed, a dry run included.
C23_CountsAccountForEveryDevice ==
    (script = "homebox" /\ pc = "done") =>
        created + updated + skipped = Cardinality(ProcessedDevices)

\* A name that a pattern of the deny-list matches.
DenyListed(name) ==
    \E p \in 1..Len(EXCLUDE_PATTERNS) : re_search(EXCLUDE_PATTERNS[p], name)

\* C24: the name is_physical_device judges is the name sync_devices files
\* the device under: for every device that passed the filter the two names
\* are equal, and no operation of the pass bears a deny-listed name.
C24_ClassifiedNameIsSyncName ==
    script = "homebox" =>
        /\ \A device \in Range(physical_devices) :
               ClassifierName(device) = SyncName(device)
        /\ \A k \in 1..Len(ops) : ~DenyListed(ops[k].name)

\* The items of the fetched snapshot that a PATCH is addressed to.
SnapshotTargets(w) ==
    {j \in 1..Len(remote_before.abs_items) :
        remote_before.abs_items[j].id = w.data.id}

\* C25: the audiobook sync never downgrades a finished remote record: every
\* PATCH of the pass is addressed to an item that was not finished in the
\* fetched snapshot, and a PATCH whose body says isFinished false is
\* addressed to an item that had progress 0 and current time 0 there.
C25_FinishedNeverDowngraded ==
    script = "audible" =>
        \A k \in 1..Len(writes) :
            /\ SnapshotTargets(writes[k]) # {}
            /\ \A j \in SnapshotTargets(writes[k]) :
                   LET item == remote_before.abs_items[j]
                   IN  /\ ~item.is_finished
                       /\ writes[k].data.body.isFinished = FALSE =>
                              item.progress = 0 /\ item.current_time = 0

C25_Witness ==
    /\ script = "audible" /\ pc = "done"
    /\ \E j \in 1..Len(remote_before.abs_items) :
           remote_before.abs_items[j].is_finished
    /\ \E k \in 1..Len(writes) :
           /\ writes[k].outcome = "ok"
           /\ writes[k].data.body.isFinished = FALSE

\* A step of main's loop over the files: one call of update_scene_from_file.
FileStep == script = "scene" /\ pc = "files" /\ idx <= Len(argv) /\ idx' = idx + 1

\* The call returned True: main has counted it.
ReturnedTrue == updated_count' = updated_count + 1

\* The entries of the list that bear the id, lowest index first.
EntriesWithId(list, id) == {i \in 1..Len(list) : Get(list[i], "id") = id}

\* C26: a call of update_scene_from_file (update_automation_from_file) that
\* returns True leaves the list at its length, puts the record of the file
\* at the first index whose id is that of the file and leaves every other
\* entry as it was and where it was; a call that returns False does not
\* rewrite the list.
C26_OnlyMatchedEntryChanges ==
    [][FileStep =>
          IF ReturnedTrue
          THEN LET desired == argv[idx].data
                   hits == EntriesWithId(LOCAL_TEMP.data, desired.id)
               IN  /\ hits # {}
                   /\ LOCAL_TEMP'.is_list = LOCAL_TEMP.is_list
                   /\ Len(LOCAL_TEMP'.data) = Len(LOCAL_TEMP.data)
                   /\ \A i \in 1..Len(LOCAL_TEMP.data) :
                          LOCAL_TEMP'.data[i] =
                              IF i = Min(hits) THEN desired
                              ELSE LOCAL_TEMP.data[i]
          ELSE LOCAL_TEMP' = LOCAL_TEMP]_vars

\* A file was applied to a list in which two scenes bear its id, and the
\* list is no longer the downloaded one.
C26_Witness ==
    /\ script = "scene" /\ updated_count > 0
    /\ LOCAL_TEMP # ScenesBefore
    /\ \E k \in 1..Processed :
           /\ ops[k].kind = "Update"
           /\ Cardinality(EntriesWithId(ScenesBefore.data, argv[k].data.id)) > 1

\* The files of the run that update_scene_from_file has applied.
AppliedFiles == {k \in 1..Len(ops) : ops[k].kind = "Update"}

\* C27: the scene (automation) script uploads at most once per run, only
\* behind the last input file, and exactly when a file was applied: a run
\* that has ended behind its loop has uploaded iff a file was applied, and
\* a run that ended with no file applied has uploaded nothing and exits
\* with a status other than 0.
C27_UploadOnceAfterAllFiles ==
    script = "scene" =>
        /\ Len(writes) <= 1
        /\ writes # <<>> =>
              /\ idx = Len(argv) + 1
              /\ Len(ops) = Len(argv)
              /\ AppliedFiles # {}
        /\ (Ended /\ idx > Len(argv)) => (writes # <<>> <=> AppliedFiles # {})
        /\ (Ended /\ AppliedFiles = {}) => writes = <<>> /\ exit_code = <<1>>

C27_Witness ==
    /\ script = "scene" /\ pc = "done" /\ Len(argv) = 2
    /\ Len(writes) = 1 /\ writes[1].outcome = "ok"
    /\ Cardinality(AppliedFiles) = 1

\* A mapping without one of its keys.
Without(dict, key) == [x \in DOMAIN dict \ {key} |-> dict[x]]

\* Everything an entity holds but options.conversation.should_expose: its
\* own fields, its other options, its other conversation options.
BesideExpose(entity) ==
    <<Without(entity, "options"),
      Without(Get(entity, "options"), "conversation"),
      Without(ConvOptions(entity), "should_expose")>>

\* C28: update_registry leaves the entities of unmanaged domains as they
\* were, adds and removes no entity, and changes nothing of an entity but
\* options.conversation.should_expose; the registry a pass uploads differs
\* from the downloaded one in that alone.
C28_OnlyShouldExposeChanges ==
    (script = "expose" /\ pc \in {"upload", "done"}) =>
        /\ Len(registry) = Len(RegistryBefore)
        /\ \A k \in 1..Len(registry) :
              /\ ~Managed(RegistryBefore[k]) => registry[k] = RegistryBefore[k]
              /\ BesideExpose(registry[k]) = BesideExpose(RegistryBefore[k])
        /\ \A k \in 1..Len(writes) :
              /\ Len(writes[k].data) = Len(RegistryBefore)
              /\ \A j \in 1..Len(RegistryBefore) :
                    BesideExpose(writes[k].data[j]) = BesideExpose(RegistryBefore[j])

C28_Witness ==
    /\ script = "expose" /\ pc = "done" /\ ~dry_run /\ run = 1
    /\ \E k \in 1..Len(registry) :
          /\ "cloud" \in DOMAIN Get(RegistryBefore[k], "options")
          /\ registry[k] # RegistryBefore[k]
    /\ \E k \in 1..Len(registry) :
          /\ ~Managed(RegistryBefore[k])
          /\ RegistryBefore[k].entity_id \in DesiredExposed
          /\ StoresExpose(RegistryBefore[k], FALSE)

\* The entities that update_registry has left other than it found them.
ChangedEntities == {k \in 1..Len(registry) : registry[k] # RegistryBefore[k]}

\* C29: the statistics of update_registry partition the registry: the four
\* counters add up to the number of entities, and exposed + hidden is the
\* number of entities whose should_expose was changed.
C29_StatsPartitionRegistry ==
    (script = "expose" /\ pc \in {"upload", "done"}) =>
        /\ stats["exposed"] + stats["hidden"] + stats["unchanged"]
              + stats["not_in_domain"] = Len(RegistryBefore)
        /\ stats["exposed"] + stats["hidden"] = Cardinality(ChangedEntities)

C29_Witness ==
    /\ script = "expose" /\ pc = "done"
    /\ stats["hidden"] = 1 /\ stats["not_in_domain"] = 1
    /\ Cardinality(ChangedEntities) = 1

\* The list the run has downloaded, and the names asked for.  A scene
\* without a name goes by the empty name.
ListedBefore == remote_before.SERVER_PATH.data

Requested == {argv[k] : k \in 1..Len(argv)}

NameInList(i) ==
    IF "name" \in DOMAIN ListedBefore[i] THEN ListedBefore[i].name ELSE ""

Doomed == {i \in 1..Len(ListedBefore) : NameInList(i) \in Requested}

Spared == (1..Len(ListedBefore)) \ Doomed

\* The index in the downloaded list of the j-th scene that is spared.
SparedIndex(j) ==
    CHOOSE i \in Spared : Cardinality({m \in Spared : m <= i}) = j

\* delete_scenes_by_name has returned.
DeleteReturned ==
    script = "delete" /\ (pc \in {"upload", "done"} \/ (pc = "exit" /\ LOCAL_TEMP.is_list))

\* C30: delete_scenes_by_name removes every scene whose name is asked for,
\* duplicates of a name included, keeps the other scenes in their order and
\* returns the number of scenes removed; when no scene has one of the names
\* it returns 0 and leaves the file as downloaded, and the run uploads
\* nothing and exits with status 1.
C30_DeleteByNameRemovesAllMatches ==
    DeleteReturned =>
        /\ deleted_count = Cardinality(Doomed)
        /\ Len(LOCAL_TEMP.data) = Cardinality(Spared)
        /\ \A j \in 1..Len(LOCAL_TEMP.data) :
               LOCAL_TEMP.data[j] = ListedBefore[SparedIndex(j)]
        /\ Doomed = {} =>
              /\ LOCAL_TEMP = remote_before.SERVER_PATH
              /\ writes = <<>> /\ SERVER_PATH = remote_before.SERVER_PATH
              /\ Ended => exit_code = <<1>>

C30_Witness ==
    /\ script = "delete" /\ pc = "done" /\ run = 1
    /\ Len(argv) = 2
    /\ Doomed = {1, 3} /\ NameInList(1) = NameInList(3)
    /\ deleted_count = 2

=============================================================================
